---- MODULE Spec2Model ----
(***************************************************************************)
(* Universal ZK verifier (Universal-ZKV, packages/stylus): a state-machine *)
(* model of the Stylus contract revisions, the dispatch validator, and the *)
(* Groth16 / PLONK / STARK verifiers.                                      *)
(*                                                                         *)
(* Abstractions used throughout.                                           *)
(*  - Group elements of G1 and G2 are represented by their discrete        *)
(*    logarithm in a prime field of FieldP elements, and the pairing       *)
(*    e(P, Q) by the product of the logarithms (the exponent of the        *)
(*    target-group generator).  The target-group identity is exponent 0.   *)
(*  - A byte string is a record holding its length, how it decodes         *)
(*    ("ok", "garbage": deserialization fails, "offcurve": deserializes    *)
(*    but a point is not on the curve / in the subgroup) and the decoded   *)
(*    fields.                                                              *)
(*  - keccak256 is a collision-free tagging of the hashed value.           *)
(***************************************************************************)
EXTENDS Integers, Sequences, FiniteSets, TLC

\* ------------------------------------------------------------------ bounds
\* Longest Groth16 batch explored.
MaxBatch == 2
\* Largest value of a public input / proof scalar drawn as an input.
MaxScalar == 1

\* ------------------------------------------------- field and curve algebra
\* Order of the scalar field Fr (scaled down from BN254's r).
FieldP == 5

Fp == 0 .. (FieldP - 1)

fr_add(a, b) == (a + b) % FieldP

fr_sub(a, b) == (a - b + FieldP) % FieldP

fr_mul(a, b) == (a * b) % FieldP

\* -P for a group element given by its discrete logarithm.
neg(a) == (FieldP - a) % FieldP

RECURSIVE multi_pairing(_, _)
\* Bn254::multi_pairing: the product of the pairings e(ps[i], qs[i]), as the
\* exponent of the target-group generator.
multi_pairing(ps, qs) ==
    IF ps = <<>> THEN 0
    ELSE fr_add(fr_mul(Head(ps), Head(qs)), multi_pairing(Tail(ps), Tail(qs)))

\* The identity of the target group (TargetField::one()).
GT_one == 0

\* usize is 32 bits wide on the wasm32 target of the contract; a usize is
\* written as two 16-bit limbs <<high, low>>.
UsizeLimb == 2 ^ 16

usize(n) == <<n \div UsizeLimb, n % UsizeLimb>>

\* a - b on usize (a, b below 2^16) when the subtraction is allowed to wrap
\* (release build): the difference modulo 2^32.
usize_wrapping_sub(a, b) ==
    IF a >= b THEN usize(a - b) ELSE <<UsizeLimb - 1, UsizeLimb + a - b>>

\* ------------------------------------------------------------ groth16.rs
MAX_PUBLIC_INPUTS == 256

MAX_PROOF_SIZE == 512

MAX_VK_SIZE == 4096

\* VerifyingKey::deserialize_compressed(vk_bytes).is_ok()
VerifyingKey_deserialize_ok(vk_bytes) == vk_bytes.enc # "garbage"

\* validate_vk(&vk).is_ok(): every point on the curve and in the subgroup.
validate_vk(vk) == vk.enc # "offcurve"

\* Proof::deserialize_compressed(proof_bytes).is_ok()
Proof_deserialize_ok(proof_bytes) == proof_bytes.enc # "garbage"

\* validate_proof(&proof).is_ok()
validate_proof(proof) == proof.enc # "offcurve"

\* deserialize_public_inputs: [err |-> "" or the error, vals |-> the inputs].
\* An element equal to FieldP stands for a non-canonical 32-byte chunk.
deserialize_public_inputs(bytes) ==
    IF bytes.len % 32 # 0
    THEN [err |-> "Err(InvalidPublicInputs)", vals |-> <<>>]
    ELSE IF bytes.len \div 32 > MAX_PUBLIC_INPUTS
    THEN [err |-> "Err(InvalidInputSize)", vals |-> <<>>]
    ELSE IF \E i \in DOMAIN bytes.elems : bytes.elems[i] >= FieldP
    THEN [err |-> "Err(InvalidPublicInputs)", vals |-> <<>>]
    ELSE [err |-> "", vals |-> bytes.elems]

RECURSIVE accumulate_l(_, _, _)
\* L = gamma_abc_g1[0] + sum_{i < n} public_inputs[i] * gamma_abc_g1[i+1]
\* (sequences are 1-based here).
accumulate_l(gamma_abc_g1, public_inputs, n) ==
    IF n = 0 THEN gamma_abc_g1[1]
    ELSE fr_add(accumulate_l(gamma_abc_g1, public_inputs, n - 1),
                fr_mul(public_inputs[n], gamma_abc_g1[n + 1]))

\* gamma_abc_g1[0] and gamma_abc_g1[i + 1] are bounds-checked slice accesses:
\* they panic when the key holds fewer than |public_inputs| + 1 points.
l_index_in_bounds(vk, public_inputs) ==
    Len(vk.gamma_abc_g1) >= Len(public_inputs) + 1

\* verify_proof_internal: e(A,B) * e(-alpha,beta) * e(-L,gamma) * e(-C,delta) == 1
verify_proof_internal(vk, proof, public_inputs) ==
    IF ~l_index_in_bounds(vk, public_inputs) THEN "panic"
    ELSE LET l == accumulate_l(vk.gamma_abc_g1, public_inputs, Len(public_inputs))
             pairing_check ==
                 multi_pairing(<<proof.a, neg(vk.alpha_g1), neg(l), neg(proof.c)>>,
                               <<proof.b, vk.beta_g2, vk.gamma_g2, vk.delta_g2>>)
         IN  IF pairing_check = GT_one THEN "Ok(true)" ELSE "Ok(false)"

\* verify_proof_with_precomputed pairing L instead of -L with gamma.
verify_proof_with_precomputed_plus_l(vk, proof, public_inputs, precomputed_alpha_beta) ==
    IF ~l_index_in_bounds(vk, public_inputs) THEN "panic"
    ELSE LET l == accumulate_l(vk.gamma_abc_g1, public_inputs, Len(public_inputs))
             left_side ==
                 multi_pairing(<<proof.a, l, neg(proof.c)>>,
                               <<proof.b, vk.gamma_g2, vk.delta_g2>>)
         IN  IF left_side = precomputed_alpha_beta THEN "Ok(true)" ELSE "Ok(false)"

\* verify_proof_with_precomputed: e(A,B) * e(-L,gamma) * e(-C,delta) == e(alpha,beta)
verify_proof_with_precomputed(vk, proof, public_inputs, precomputed_alpha_beta) ==
    IF ~l_index_in_bounds(vk, public_inputs) THEN "panic"
    ELSE LET l == accumulate_l(vk.gamma_abc_g1, public_inputs, Len(public_inputs))
             left_side ==
                 multi_pairing(<<proof.a, neg(l), neg(proof.c)>>,
                               <<proof.b, vk.gamma_g2, vk.delta_g2>>)
         IN  IF left_side = precomputed_alpha_beta THEN "Ok(true)" ELSE "Ok(false)"

\* `public_inputs.len() != vk.gamma_abc_g1.len() - 1`: the subtraction is on
\* usize.  For a key with no gamma_abc_g1 point it underflows: a panic when the
\* build has overflow checks (debug, test), a wrap to usize::MAX otherwise.
\* Result: "panic", "mismatch" or "match".
input_count_check(public_inputs, vk, overflow_checks) ==
    IF Len(vk.gamma_abc_g1) = 0 /\ overflow_checks THEN "panic"
    ELSE IF usize(Len(public_inputs)) # usize_wrapping_sub(Len(vk.gamma_abc_g1), 1)
    THEN "mismatch"
    ELSE "match"

\* The checks verify and verify_with_precomputed share (lines 82-109 and
\* 249-276): "" when all pass, else the outcome of the first that fails.
verify_prefix(proof_bytes, public_inputs_bytes, vk_bytes, overflow_checks) ==
    IF proof_bytes.len > MAX_PROOF_SIZE THEN "Err(InvalidInputSize)"
    ELSE IF vk_bytes.len > MAX_VK_SIZE THEN "Err(InvalidInputSize)"
    ELSE IF ~VerifyingKey_deserialize_ok(vk_bytes) THEN "Err(InvalidVerificationKey)"
    ELSE IF ~validate_vk(vk_bytes) THEN "Err(InvalidVerificationKey)"
    ELSE IF ~Proof_deserialize_ok(proof_bytes) THEN "Err(DeserializationError)"
    ELSE IF ~validate_proof(proof_bytes) THEN "Err(MalformedProof)"
    ELSE LET pi == deserialize_public_inputs(public_inputs_bytes) IN
         IF pi.err # "" THEN pi.err
         ELSE LET cnt == input_count_check(pi.vals, vk_bytes, overflow_checks) IN
              IF cnt = "panic" THEN "panic"
              ELSE IF cnt = "mismatch" THEN "Err(InvalidPublicInputs)"
              ELSE ""

\* groth16::verify
groth16_verify(proof_bytes, public_inputs_bytes, vk_bytes, overflow_checks) ==
    LET pre == verify_prefix(proof_bytes, public_inputs_bytes, vk_bytes, overflow_checks) IN
    IF pre # "" THEN pre
    ELSE verify_proof_internal(vk_bytes, proof_bytes,
                               deserialize_public_inputs(public_inputs_bytes).vals)

\* The empty byte string standing for "no precomputed pairing".
NoPrecomputed == [present |-> FALSE, enc |-> "ok", gt |-> 0]

\* PairingOutput::deserialize_compressed(bytes).is_ok()
PairingOutput_deserialize_ok(bytes) == bytes.enc # "garbage"

\* groth16::verify_with_precomputed
groth16_verify_with_precomputed(proof_bytes, public_inputs_bytes, vk_bytes, precomputed_alpha_beta_bytes, overflow_checks) ==
    LET pre == verify_prefix(proof_bytes, public_inputs_bytes, vk_bytes, overflow_checks) IN
    IF pre # "" THEN pre
    ELSE IF ~PairingOutput_deserialize_ok(precomputed_alpha_beta_bytes)
    THEN "Err(InvalidVerificationKey)"
    ELSE verify_proof_with_precomputed(vk_bytes, proof_bytes,
             deserialize_public_inputs(public_inputs_bytes).vals,
             precomputed_alpha_beta_bytes.gt)

\* groth16::compute_precomputed_pairing: [err, bytes] with bytes = e(alpha, beta).
compute_precomputed_pairing(vk_bytes) ==
    IF ~VerifyingKey_deserialize_ok(vk_bytes) \/ ~validate_vk(vk_bytes)
    THEN [err |-> "Err(InvalidVerificationKey)", bytes |-> NoPrecomputed]
    ELSE [err |-> "",
          bytes |-> [present |-> TRUE, enc |-> "ok",
                     gt |-> multi_pairing(<<vk_bytes.alpha_g1>>, <<vk_bytes.beta_g2>>)]]

\* One iteration of batch_verify's loop (lines 478-517): "true", "false" or
\* "panic".  No size check and no input-count check is made here.
batch_entry(proof_bytes, public_inputs_bytes, vk, precomputed) ==
    IF ~Proof_deserialize_ok(proof_bytes) THEN "false"
    ELSE IF ~validate_proof(proof_bytes) THEN "false"
    ELSE LET pi == deserialize_public_inputs(public_inputs_bytes) IN
         IF pi.err # "" THEN "false"
         ELSE LET r == IF precomputed.present
                       THEN verify_proof_with_precomputed(vk, proof_bytes, pi.vals,
                                                          precomputed.gt)
                       ELSE verify_proof_internal(vk, proof_bytes, pi.vals)
              IN  IF r = "panic" THEN "panic"
                  ELSE IF r = "Ok(true)" THEN "true" ELSE "false"

\* groth16::batch_verify: [status |-> "Ok" | "Err(..)" | "panic", results].
groth16_batch_verify(proofs, public_inputs, vk_bytes, precomputed_pairing_bytes) ==
    IF Len(proofs) # Len(public_inputs)
    THEN [status |-> "Err(InvalidInputSize)", results |-> <<>>]
    ELSE IF proofs = <<>> THEN [status |-> "Ok", results |-> <<>>]
    ELSE IF ~VerifyingKey_deserialize_ok(vk_bytes) \/ ~validate_vk(vk_bytes)
    THEN [status |-> "Err(InvalidVerificationKey)", results |-> <<>>]
    ELSE IF precomputed_pairing_bytes.present
            /\ ~PairingOutput_deserialize_ok(precomputed_pairing_bytes)
    THEN [status |-> "Err(InvalidVerificationKey)", results |-> <<>>]
    ELSE LET entry(i) == batch_entry(proofs[i], public_inputs[i], vk_bytes,
                                     precomputed_pairing_bytes)
         IN  IF \E i \in DOMAIN proofs : entry(i) = "panic"
             THEN [status |-> "panic", results |-> <<>>]
             ELSE [status |-> "Ok",
                   results |-> [i \in DOMAIN proofs |-> entry(i) = "true"]]

\* The arguments whose curve points verify and verify_with_precomputed
\* deserialize and validate: none after a size check fails, the key alone
\* when the key is rejected, else the key and the proof.
verify_deserialized(proof_bytes, vk_bytes) ==
    IF proof_bytes.len > MAX_PROOF_SIZE THEN {}
    ELSE IF vk_bytes.len > MAX_VK_SIZE THEN {}
    ELSE IF ~VerifyingKey_deserialize_ok(vk_bytes) \/ ~validate_vk(vk_bytes) THEN {"vk"}
    ELSE {"vk", "proof"}

\* The arguments whose curve points batch_verify deserializes and validates.
batch_verify_deserialized(proofs, public_inputs, vk_bytes, precomputed_pairing_bytes) ==
    IF Len(proofs) # Len(public_inputs) THEN {}
    ELSE IF proofs = <<>> THEN {}
    ELSE IF ~VerifyingKey_deserialize_ok(vk_bytes) \/ ~validate_vk(vk_bytes) THEN {"vk"}
    ELSE IF precomputed_pairing_bytes.present
            /\ ~PairingOutput_deserialize_ok(precomputed_pairing_bytes)
    THEN {"vk"}
    ELSE {"vk", "proof"}

\* Number of pairings a Groth16 call computed: the multi_pairing is reached
\* only when every structural check has passed.
groth16_pairings(outcome, with_precomputed) ==
    IF outcome \in {"Ok(true)", "Ok(false)"}
    THEN (IF with_precomputed THEN 3 ELSE 4)
    ELSE 0

\* ------------------------------------------------------------ security.rs
\* ProofType as u8 (types.rs): Groth16 = 0, PLONK = 1, STARK = 2.
Groth16 == 0

PLONK == 1

STARK == 2

\* ProofType::from_u8(x).is_some()
ProofType_from_u8_ok(x) == x \in {Groth16, PLONK, STARK}

\* DispatchValidator::default()
DefaultValidator ==
    [max_recursion_depth |-> 8, require_post_quantum |-> FALSE, min_security_bits |-> 128]

\* DispatchValidator::strict()
StrictValidator ==
    [max_recursion_depth |-> 4, require_post_quantum |-> TRUE, min_security_bits |-> 128]

\* RegisteredVK::new
RegisteredVK_new(proof_type, vk_hash, circuit_id, curve_id, max_public_inputs) ==
    [proof_type |-> proof_type, vk_hash |-> vk_hash, circuit_id |-> circuit_id,
     curve_id |-> curve_id, max_public_inputs |-> max_public_inputs, active |-> TRUE]

\* UniversalProofDescriptor::new (argument order of the call in lib.rs)
UniversalProofDescriptor_new(proof_system_id, curve_id, hash_function_id, recursion_depth, public_input_count, proof_length, vk_commitment, circuit_id) ==
    [proof_system_id |-> proof_system_id, curve_id |-> curve_id,
     hash_function_id |-> hash_function_id, recursion_depth |-> recursion_depth,
     public_input_count |-> public_input_count, proof_length |-> proof_length,
     vk_commitment |-> vk_commitment, circuit_id |-> circuit_id]

\* SecurityModel::groth16_bn254(), plonk_kzg_bn254() and stark_fri(), reduced to
\* the two fields the validator reads.
SecurityModel_groth16_bn254 == [security_bits |-> 128, post_quantum_secure |-> FALSE]

SecurityModel_plonk_kzg_bn254 == [security_bits |-> 128, post_quantum_secure |-> FALSE]

SecurityModel_stark_fri == [security_bits |-> 128, post_quantum_secure |-> TRUE]

\* A faulty binding check that forgets the circuit_id comparison.
binding_without_circuit_id(self, descriptor, registered_vk) ==
    IF ~registered_vk.active THEN "UnsupportedProofSystem"
    ELSE IF registered_vk.proof_type # descriptor.proof_system_id
    THEN "ProofTypeMismatch"
    ELSE IF descriptor.vk_commitment # registered_vk.vk_hash
    THEN "VKCommitmentMismatch"
    ELSE "Ok"

\* validate_proof_type_binding: inactive key, then proof type, then
\* vk_commitment, then circuit_id.
validate_proof_type_binding(self, descriptor, registered_vk) ==
    IF ~registered_vk.active THEN "UnsupportedProofSystem"
    ELSE IF registered_vk.proof_type # descriptor.proof_system_id
    THEN "ProofTypeMismatch"
    ELSE IF descriptor.vk_commitment # registered_vk.vk_hash
    THEN "VKCommitmentMismatch"
    ELSE IF descriptor.circuit_id # registered_vk.circuit_id
    THEN "UnknownCircuitId"
    ELSE "Ok"

validate_curve_match(self, descriptor, registered_vk) ==
    IF descriptor.curve_id # registered_vk.curve_id THEN "CurveMismatch" ELSE "Ok"

validate_recursion_depth(self, descriptor) ==
    IF descriptor.recursion_depth > self.max_recursion_depth
    THEN "ExcessiveRecursionDepth"
    ELSE "Ok"

validate_input_count(self, descriptor, registered_vk) ==
    IF descriptor.public_input_count > registered_vk.max_public_inputs
    THEN "TooManyPublicInputs"
    ELSE "Ok"

\* The per-system ceiling of validate_proof_size; 0 stands for the `_` arm.
max_size(proof_system_id) ==
    CASE proof_system_id = 0 -> 512
      [] proof_system_id = 1 -> 4096
      [] proof_system_id = 2 -> 1000000
      [] OTHER -> 0

validate_proof_size(self, descriptor) ==
    IF descriptor.proof_system_id \notin {0, 1, 2} THEN "UnsupportedProofSystem"
    ELSE IF descriptor.proof_length > max_size(descriptor.proof_system_id)
    THEN "ProofTooLarge"
    ELSE "Ok"

validate_security_level(self, security_model) ==
    IF security_model.security_bits < self.min_security_bits
    THEN "InsufficientSecurityLevel"
    ELSE IF self.require_post_quantum /\ ~security_model.post_quantum_secure
    THEN "PostQuantumRequired"
    ELSE "Ok"

\* A faulty validate_all that checks the proof size before the input count.
validate_all_size_first(self, descriptor, registered_vk, security_model) ==
    LET r1 == validate_proof_type_binding(self, descriptor, registered_vk)
        r2 == validate_curve_match(self, descriptor, registered_vk)
        r3 == validate_recursion_depth(self, descriptor)
        r4 == validate_proof_size(self, descriptor)
        r5 == validate_input_count(self, descriptor, registered_vk)
        r6 == validate_security_level(self, security_model)
    IN  IF r1 # "Ok" THEN [result |-> r1, evaluated |-> 1]
        ELSE IF r2 # "Ok" THEN [result |-> r2, evaluated |-> 2]
        ELSE IF r3 # "Ok" THEN [result |-> r3, evaluated |-> 3]
        ELSE IF r4 # "Ok" THEN [result |-> r4, evaluated |-> 4]
        ELSE IF r5 # "Ok" THEN [result |-> r5, evaluated |-> 5]
        ELSE IF r6 # "Ok" THEN [result |-> r6, evaluated |-> 6]
        ELSE [result |-> "Ok", evaluated |-> 6]

\* validate_all: the result, and how many of the six checks were evaluated
\* before it returned (each `?` returns at the first Err).
validate_all(self, descriptor, registered_vk, security_model) ==
    LET r1 == validate_proof_type_binding(self, descriptor, registered_vk)
        r2 == validate_curve_match(self, descriptor, registered_vk)
        r3 == validate_recursion_depth(self, descriptor)
        r4 == validate_input_count(self, descriptor, registered_vk)
        r5 == validate_proof_size(self, descriptor)
        r6 == validate_security_level(self, security_model)
    IN  IF r1 # "Ok" THEN [result |-> r1, evaluated |-> 1]
        ELSE IF r2 # "Ok" THEN [result |-> r2, evaluated |-> 2]
        ELSE IF r3 # "Ok" THEN [result |-> r3, evaluated |-> 3]
        ELSE IF r4 # "Ok" THEN [result |-> r4, evaluated |-> 4]
        ELSE IF r5 # "Ok" THEN [result |-> r5, evaluated |-> 5]
        ELSE IF r6 # "Ok" THEN [result |-> r6, evaluated |-> 6]
        ELSE [result |-> "Ok", evaluated |-> 6]

\* ------------------------------------------------------------------ state
VARIABLES
    rev,                  \* which revision of the contract is deployed
    paused,               \* bool paused
    admin,                \* address admin
    nullifiers,           \* mapping(bytes32 => bool) nullifiers, as the set of true keys
    verification_count,   \* uint256 verification_count
    vk_registry,          \* (proofType, programId, vkHash) => vkData
    precomputed_data,     \* (proofType, programId, vkHash) => precomputed pairing
    verification_keys,    \* legacy vkHash => vkData
    precomputed_pairings, \* legacy vkHash => precomputed pairing
    registrations,        \* history: every (proof_type, program_id, vk_hash) registered
    last,                 \* the last contract call: operation, arguments, outcome
    vcall,                \* the last DispatchValidator call
    g16,                  \* the last call of the Groth16 module
    pv,                   \* the last call of the PLONK / STARK / dispatcher modules
    fcall,                \* the last call of the Merkle / FRI / transcript / wire-format code
    proof_attestor        \* the ProofAttestor contract: its storage and its last call

contract_vars == <<rev, paused, admin, nullifiers, verification_count, vk_registry, precomputed_data, verification_keys, precomputed_pairings, registrations, last>>

vars == <<rev, paused, admin, nullifiers, verification_count, vk_registry, precomputed_data, verification_keys, precomputed_pairings, registrations, last, vcall, g16, pv, fcall, proof_attestor>>

\* ------------------------------------------- DispatchValidator call inputs
\* Descriptors handed to the validator ([n u8; 32] arrays are written n).
ValidatorDescriptors ==
    { UniversalProofDescriptor_new(t, c, "Keccak256", d, n, l, h, cid) :
        t \in 0 .. 3, c \in {"BN254", "BLS12_381"}, d \in {0, 5, 9},
        n \in {4, 300}, l \in {256, 600, 5000}, h \in {1, 99}, cid \in {2, 3} }

\* Registered keys handed to the validator: sample_vk() of the tests with
\* every proof type, active or not.
ValidatorRegisteredVKs ==
    { [RegisteredVK_new(t, 1, 2, "BN254", 256) EXCEPT !.active = a] :
        t \in {Groth16, PLONK, STARK}, a \in BOOLEAN }

ValidatorSecurityModels ==
    { SecurityModel_groth16_bn254, SecurityModel_plonk_kzg_bn254, SecurityModel_stark_fri,
      [security_bits |-> 80, post_quantum_secure |-> FALSE] }

Validators == {DefaultValidator, StrictValidator}

VcallIdle ==
    [op |-> "idle", self |-> DefaultValidator,
     descriptor |-> UniversalProofDescriptor_new(0, "BN254", "Keccak256", 0, 4, 256, 1, 2),
     registered_vk |-> RegisteredVK_new(Groth16, 1, 2, "BN254", 256),
     security_model |-> SecurityModel_groth16_bn254,
     result |-> "Ok", evaluated |-> 0, curve_ops |-> 0]

\* A caller invokes validate_proof_type_binding.
Call_validate_proof_type_binding ==
    /\ vcall.op = "idle"
    /\ \E self \in Validators, d \in ValidatorDescriptors, rvk \in ValidatorRegisteredVKs :
         vcall' = [VcallIdle EXCEPT
                      !.op = "validate_proof_type_binding", !.self = self,
                      !.descriptor = d, !.registered_vk = rvk,
                      !.result = validate_proof_type_binding(self, d, rvk),
                      !.evaluated = 1]
    /\ UNCHANGED <<contract_vars, g16, pv, fcall, proof_attestor>>

\* A caller invokes validate_all.
Call_validate_all ==
    /\ vcall.op = "idle"
    /\ \E self \in Validators, d \in ValidatorDescriptors, rvk \in ValidatorRegisteredVKs,
          sm \in ValidatorSecurityModels :
         LET r == validate_all(self, d, rvk, sm) IN
         vcall' = [VcallIdle EXCEPT
                      !.op = "validate_all", !.self = self,
                      !.descriptor = d, !.registered_vk = rvk, !.security_model = sm,
                      !.result = r.result, !.evaluated = r.evaluated]
    /\ UNCHANGED <<contract_vars, g16, pv, fcall, proof_attestor>>

\* --------------------------------------------------- Groth16 call inputs
\* Most public inputs in a drawn input vector.
MaxInputs == 2

RECURSIVE SeqsUpTo(_, _)
\* All sequences over S of length at most n.
SeqsUpTo(S, n) ==
    IF n = 0 THEN {<<>>}
    ELSE LET shorter == SeqsUpTo(S, n - 1) IN
         shorter \cup { Append(q, x) : q \in {r \in shorter : Len(r) = n - 1}, x \in S }

G16Proof(len, enc, a) == [len |-> len, enc |-> enc, a |-> a, b |-> 1, c |-> 0]

\* Proof byte strings: well-formed, undecodable, with an invalid point, and a
\* well-formed proof followed by padding beyond MAX_PROOF_SIZE.
G16ProofBytes ==
    { G16Proof(128, "ok", a) : a \in 0 .. MaxScalar }
    \cup { G16Proof(128, "garbage", 0), G16Proof(128, "offcurve", 0),
           G16Proof(MAX_PROOF_SIZE + 1, "ok", 0) }

G16Inputs(elems, extra) == [len |-> 32 * Len(elems) + extra, elems |-> elems]

\* Public-input byte strings: aligned vectors, one with a trailing byte, one
\* with a non-canonical element, and one of MAX_PUBLIC_INPUTS + 1 elements
\* (its elements are never read).
G16InputBytes ==
    { G16Inputs(e, 0) : e \in SeqsUpTo(0 .. MaxScalar, MaxInputs) }
    \cup { G16Inputs(<<1>>, 1), G16Inputs(<<FieldP>>, 0),
           [len |-> 32 * (MAX_PUBLIC_INPUTS + 1), elems |-> <<>>] }

G16Vk(len, enc, ic) ==
    [len |-> len, enc |-> enc, alpha_g1 |-> 1, beta_g2 |-> 2, gamma_g2 |-> 1,
     delta_g2 |-> 1, gamma_abc_g1 |-> ic]

\* Verification keys: for 0, 1 and 2 public inputs, one with no gamma_abc_g1
\* point at all, an undecodable one, one with an invalid point, an oversized one.
G16VkBytes ==
    { G16Vk(400, "ok", ic) : ic \in {<<>>, <<3>>, <<1, 2>>, <<1, 2, 2>>} }
    \cup { G16Vk(400, "garbage", <<1, 2>>), G16Vk(400, "offcurve", <<1, 2>>),
           G16Vk(MAX_VK_SIZE + 1, "ok", <<1, 2>>) }

\* The precomputed-pairing arguments a caller of the contract passes for a
\* key: none, or the one compute_precomputed_pairing stored at registration.
G16Precomputed(vk) ==
    {NoPrecomputed} \cup
    (IF compute_precomputed_pairing(vk).err = "" THEN {compute_precomputed_pairing(vk).bytes} ELSE {})

\* Entries of a batch.
G16BatchProofBytes == { p \in G16ProofBytes : p.a = 0 }

G16BatchInputBytes ==
    { G16Inputs(<<>>, 0), G16Inputs(<<1>>, 0), G16Inputs(<<1, 0>>, 0), G16Inputs(<<1>>, 1) }

G16Idle ==
    [op |-> "idle", proofs |-> <<>>, inputs |-> <<>>, vk |-> G16Vk(400, "ok", <<3>>),
     pre |-> NoPrecomputed, overflow_checks |-> FALSE, outcome |-> "", results |-> <<>>,
     deserialized |-> {}]

\* A caller invokes groth16::verify.
Call_groth16_verify ==
    /\ g16.op = "idle"
    /\ \E p \in G16ProofBytes, i \in G16InputBytes, vk \in G16VkBytes, oc \in BOOLEAN :
         g16' = [G16Idle EXCEPT
                    !.op = "verify", !.proofs = <<p>>, !.inputs = <<i>>, !.vk = vk,
                    !.overflow_checks = oc,
                    !.outcome = groth16_verify(p, i, vk, oc),
                    !.deserialized = verify_deserialized(p, vk)]
    /\ UNCHANGED <<contract_vars, vcall, pv, fcall, proof_attestor>>

\* A caller invokes groth16::verify_with_precomputed.
Call_groth16_verify_with_precomputed ==
    /\ g16.op = "idle"
    /\ \E p \in G16ProofBytes, i \in G16InputBytes, vk \in G16VkBytes, oc \in BOOLEAN :
       \E pre \in G16Precomputed(vk) \ {NoPrecomputed} :
         g16' = [G16Idle EXCEPT
                    !.op = "verify_with_precomputed", !.proofs = <<p>>, !.inputs = <<i>>,
                    !.vk = vk, !.pre = pre, !.overflow_checks = oc,
                    !.outcome = groth16_verify_with_precomputed(p, i, vk, pre, oc),
                    !.deserialized = verify_deserialized(p, vk)]
    /\ UNCHANGED <<contract_vars, vcall, pv, fcall, proof_attestor>>

\* A caller invokes groth16::batch_verify (the build of the module is part of
\* the call's setting: it decides how single verification behaves).
Call_groth16_batch_verify ==
    /\ g16.op = "idle"
    /\ \E ps \in SeqsUpTo(G16BatchProofBytes, MaxBatch),
          is \in SeqsUpTo(G16BatchInputBytes, MaxBatch), vk \in G16VkBytes, oc \in BOOLEAN :
       \E pre \in G16Precomputed(vk) :
         LET r == groth16_batch_verify(ps, is, vk, pre) IN
         g16' = [G16Idle EXCEPT
                    !.op = "batch_verify", !.proofs = ps, !.inputs = is, !.vk = vk,
                    !.pre = pre, !.overflow_checks = oc,
                    !.outcome = r.status, !.results = r.results,
                    !.deserialized = batch_verify_deserialized(ps, is, vk, pre)]
    /\ UNCHANGED <<contract_vars, vcall, pv, fcall, proof_attestor>>

\* ------------------------------------------------------ dispatcher (uzkv.rs)
\* GasCost::estimate
GasCost_estimate(model, public_inputs, proof_bytes) ==
    model.base + model.per_public_input * public_inputs + model.per_proof_byte * proof_bytes

GasCost_groth16 == [base |-> 250000, per_public_input |-> 40000, per_proof_byte |-> 0]

GasCost_plonk == [base |-> 350000, per_public_input |-> 10000, per_proof_byte |-> 0]

GasCost_stark == [base |-> 200000, per_public_input |-> 5000, per_proof_byte |-> 10]

\* VerificationCost::for_groth16(public_inputs).estimated_total
VerificationCost_for_groth16(public_inputs) == GasCost_estimate(GasCost_groth16, public_inputs, 256)

\* VerificationCost::for_plonk(public_inputs, 65536).estimated_total; ilog2(65536) = 16
VerificationCost_for_plonk(public_inputs) == GasCost_estimate(GasCost_plonk, public_inputs, 800 + 16 * 64)

\* VerificationCost::for_stark(1024, 128).estimated_total; ilog2(1024) = 10, 128 / 32 = 4
VerificationCost_for_stark == GasCost_estimate(GasCost_stark, 4, 40000 + 10 * 4 * 2000)

\* plonk::verify on byte strings: the size checks, then Err(InvalidSRS).
plonk_verify(proof_bytes, public_inputs_bytes, vk_bytes) ==
    IF proof_bytes.len > 4096 THEN "Err(InvalidInputSize)"
    ELSE IF vk_bytes.len > 8192 THEN "Err(InvalidInputSize)"
    ELSE IF public_inputs_bytes.len > 256 * 32 THEN "Err(InvalidInputSize)"
    ELSE IF public_inputs_bytes.len % 32 # 0 THEN "Err(InvalidPublicInputs)"
    ELSE IF \E i \in 1 .. Len(public_inputs_bytes.elems) : public_inputs_bytes.elems[i] >= FieldP
         THEN "Err(InvalidPublicInputs)"
    ELSE "Err(InvalidSRS)"

\* The dispatcher consulting the registry's pause flag before it routes.
verify_universal_proof_unless_paused(proof_system, proof, public_inputs, vk, overflow_checks) ==
    IF paused THEN "Err(Contract paused)"
    ELSE IF ~ProofType_from_u8_ok(proof_system) THEN "Err(Invalid proof system)"
    ELSE IF proof_system = Groth16
         THEN LET r == groth16_verify(proof, public_inputs, vk, overflow_checks) IN
              IF r \in {"Ok(true)", "Ok(false)", "panic"} THEN r
              ELSE "Err(Groth16 verification failed)"
    ELSE IF proof_system = PLONK
         THEN LET r == plonk_verify(proof, public_inputs, vk) IN
              IF r \in {"Ok(true)", "Ok(false)"} THEN r
              ELSE "Err(Plonk verification failed)"
    ELSE "Err(Proof type not supported)"

\* verify_universal_proof: an error of the routed verifier is replaced by a
\* byte string naming the proof system.
verify_universal_proof(proof_system, proof, public_inputs, vk, overflow_checks) ==
    IF ~ProofType_from_u8_ok(proof_system) THEN "Err(Invalid proof system)"
    ELSE IF proof_system = Groth16
         THEN LET r == groth16_verify(proof, public_inputs, vk, overflow_checks) IN
              IF r \in {"Ok(true)", "Ok(false)", "panic"} THEN r
              ELSE "Err(Groth16 verification failed)"
    ELSE IF proof_system = PLONK
         THEN LET r == plonk_verify(proof, public_inputs, vk) IN
              IF r \in {"Ok(true)", "Ok(false)"} THEN r
              ELSE "Err(Plonk verification failed)"
    ELSE "Err(Proof type not supported)"

\* verify_universal_proof_with_budget
verify_universal_proof_with_budget(proof_system, proof, public_inputs, vk, gas_budget, overflow_checks) ==
    IF ~ProofType_from_u8_ok(proof_system) THEN "Err(Invalid proof system)"
    ELSE LET cost == IF proof_system = Groth16
                        THEN VerificationCost_for_groth16(public_inputs.len \div 32)
                     ELSE IF proof_system = PLONK
                        THEN VerificationCost_for_plonk(public_inputs.len \div 32)
                     ELSE VerificationCost_for_stark
         IN IF cost > gas_budget THEN "Err(Gas budget exceeded)"
            ELSE verify_universal_proof(proof_system, proof, public_inputs, vk, overflow_checks)

\* ------------------------------------------------------ contract call inputs
\* Most key registrations in one behaviour.
MaxRegs == 1

\* Cap of the verification counter.
MaxCount == 1

\* The keys callers register: a Groth16 key for one public input.
ContractVkSeq == << G16Vk(400, "ok", <<1, 2>>) >>

\* keccak256, collision-free on the registered keys.
keccak256(data) == CHOOSE h \in 1 .. Len(ContractVkSeq) : ContractVkSeq[h] = data

\* vk_hash arguments: the hashes of the keys.
Hashes == 1 .. Len(ContractVkSeq)

ProgramIds == {0, 1}

\* proof_type arguments (u8): the three proof types and one invalid value.
ProofTypeArgs == 0 .. 3

RegistryKeys == {Groth16, PLONK, STARK} \X ProgramIds \X Hashes

\* The default value of a bytes slot.
EmptyBytes == G16Vk(0, "garbage", <<>>)

is_empty(bytes) == bytes = EmptyBytes \/ bytes = NoPrecomputed

\* The elements of a sequence.
Range(q) == { q[i] : i \in DOMAIN q }

\* (proof, public_inputs) arguments: a proof valid for the registered key,
\* a false one, and a valid one with an input vector of the wrong length.
ContractCalls ==
    { [proof |-> G16Proof(128, "ok", 0), public_inputs |-> G16Inputs(<<1>>, 0)],
      [proof |-> G16Proof(128, "ok", 1), public_inputs |-> G16Inputs(<<1>>, 0)],
      [proof |-> G16Proof(128, "ok", 0), public_inputs |-> G16Inputs(<<>>, 0)] }

\* Headers of the buffers passed to verify_universal (the proof and public
\* inputs that follow are drawn from ContractCalls): every header value, a
\* buffer shorter than the 46-byte header, and a version other than 1.
UniversalProofHeaders ==
    { [long_enough |-> TRUE, version |-> 1, proof_type |-> t, program_id |-> c, vk_hash |-> h] :
        t \in ProofTypeArgs, c \in ProgramIds, h \in Hashes }
    \cup { [long_enough |-> le, version |-> v, proof_type |-> 0, program_id |-> 0, vk_hash |-> 1] :
             le \in BOOLEAN, v \in {1, 2} }

\* UniversalProof::decode: None for a short buffer, a version other than 1 or
\* an invalid proof type.
UniversalProof_decode_ok(bytes) ==
    bytes.long_enough /\ bytes.version = 1 /\ ProofType_from_u8_ok(bytes.proof_type)

\* evm::gas_left() at the call of the dispatcher.
GasBudgets == {100000, 30000000}

\* msg::sender(): never the zero address.
Addresses == {1, 2}

ZeroAddress == 0

Nullifiers == {1, 2}

Revisions == {"lib", "v06", "v010", "storage"}

LastIdle ==
    [op |-> "idle", result |-> "", results |-> <<>>, pairings |-> 0, resolved |-> FALSE,
     proof_type |-> 0, program_id |-> 0, vk_hash |-> 1, nullifier |-> 0, sender |-> ZeroAddress]

\* The state of a freshly deployed contract (no constructor: every slot zero).
ContractInit ==
    /\ rev \in Revisions
    /\ paused = FALSE
    /\ admin = ZeroAddress
    /\ nullifiers = {}
    /\ verification_count = 0
    /\ vk_registry = [k \in RegistryKeys |-> EmptyBytes]
    /\ precomputed_data = [k \in RegistryKeys |-> NoPrecomputed]
    /\ verification_keys = [h \in Hashes |-> EmptyBytes]
    /\ precomputed_pairings = [h \in Hashes |-> NoPrecomputed]
    /\ registrations = {}
    /\ last = LastIdle

\* The verifier a contract call runs on a stored key: with the precomputed
\* pairing when one is stored, else the standard one.
run_groth16(proof, public_inputs, vk_data, precomputed_pairing, overflow_checks) ==
    IF ~is_empty(precomputed_pairing)
    THEN groth16_verify_with_precomputed(proof, public_inputs, vk_data, precomputed_pairing, overflow_checks)
    ELSE groth16_verify(proof, public_inputs, vk_data, overflow_checks)

\* ------------------------------------------------------- contract (lib.rs)
\* is_nullifier_used
is_nullifier_used(nullifier) == nullifier \in nullifiers

\* is_vk_registered (vk_registered is set exactly when verification_keys is)
is_vk_registered(vk_hash) == ~is_empty(verification_keys[vk_hash])


\* The counter incremented after every completed verification, valid or not.
count_after_any_verdict(r) == IF r \in {"Ok(true)", "Ok(false)"} THEN verification_count + 1 ELSE verification_count

\* The counter after a call that returned r.
count_after(r) == IF r = "Ok(true)" THEN verification_count + 1 ELSE verification_count

\* verify_groth16(proof, public_inputs, vk_hash)
lib_verify_groth16 ==
    /\ rev = "lib"
    /\ verification_count < MaxCount
    /\ \E vk_hash \in Hashes :
         LET vk_data == verification_keys[vk_hash]
             precomputed_pairing == precomputed_pairings[vk_hash]
             early == IF paused THEN "Err(ContractPaused)"
                      ELSE IF is_empty(vk_data) THEN "Err(VKNotRegistered)"
                      ELSE ""
         IN IF early # ""
            THEN /\ UNCHANGED verification_count
                 /\ last' = [LastIdle EXCEPT !.op = "verify_groth16", !.result = early,
                                             !.proof_type = Groth16, !.vk_hash = vk_hash]
            ELSE \E call \in ContractCalls, overflow_checks \in BOOLEAN :
                   LET g == run_groth16(call.proof, call.public_inputs, vk_data, precomputed_pairing, overflow_checks)
                       r == g
                   IN /\ verification_count' = count_after(r)
                      /\ last' = [LastIdle EXCEPT
                                    !.op = "verify_groth16", !.result = r,
                                    !.pairings = groth16_pairings(g, ~is_empty(precomputed_pairing)),
                                    !.resolved = TRUE,
                                    !.proof_type = Groth16, !.vk_hash = vk_hash]
    /\ UNCHANGED <<rev, paused, admin, nullifiers, vk_registry, precomputed_data, verification_keys, precomputed_pairings, registrations, vcall, g16, pv, fcall, proof_attestor>>

\* register_vk_universal(proof_type, program_id, vk).  vk_registry_status is
\* set exactly when vk_registry is, so it is read off vk_registry.
lib_register_vk_universal ==
    /\ rev = "lib"
    /\ \E proof_type \in ProofTypeArgs, program_id \in ProgramIds, vk \in Range(ContractVkSeq) :
         LET vk_hash == keccak256(vk)
             key == <<proof_type, program_id, vk_hash>>
             pre == compute_precomputed_pairing(vk)
         IN IF ~ProofType_from_u8_ok(proof_type)
            THEN /\ last' = [LastIdle EXCEPT !.op = "register_vk_universal",
                                             !.result = "Err(InvalidProofType)",
                                             !.proof_type = proof_type, !.program_id = program_id]
                 /\ UNCHANGED <<vk_registry, precomputed_data, registrations>>
            ELSE /\ Cardinality(registrations \cup {key}) <= MaxRegs
                 /\ IF is_empty(vk_registry[key])
                    THEN /\ vk_registry' = [vk_registry EXCEPT ![key] = vk]
                         /\ precomputed_data' =
                               IF proof_type = Groth16 /\ pre.err = ""
                               THEN [precomputed_data EXCEPT ![key] = pre.bytes]
                               ELSE precomputed_data
                    ELSE UNCHANGED <<vk_registry, precomputed_data>>
                 /\ registrations' = registrations \cup {key}
                 /\ last' = [LastIdle EXCEPT !.op = "register_vk_universal", !.result = "Ok",
                                             !.proof_type = proof_type, !.program_id = program_id,
                                             !.vk_hash = vk_hash]
    /\ UNCHANGED <<rev, paused, admin, nullifiers, verification_count, verification_keys, precomputed_pairings, vcall, g16, pv, fcall, proof_attestor>>

\* register_vk(vk): the deprecated registration, for Groth16 keys.
lib_register_vk ==
    /\ rev = "lib"
    /\ \E vk \in Range(ContractVkSeq) :
         LET vk_hash == keccak256(vk)
             key == <<Groth16, 0, vk_hash>>
             pre == compute_precomputed_pairing(vk)
         IN /\ Cardinality(registrations \cup {key}) <= MaxRegs
            /\ IF ~is_vk_registered(vk_hash)
               THEN /\ verification_keys' = [verification_keys EXCEPT ![vk_hash] = vk]
                    /\ precomputed_pairings' =
                          IF pre.err = ""
                          THEN [precomputed_pairings EXCEPT ![vk_hash] = pre.bytes]
                          ELSE precomputed_pairings
               ELSE UNCHANGED <<verification_keys, precomputed_pairings>>
            /\ registrations' = registrations \cup {key}
            /\ last' = [LastIdle EXCEPT !.op = "register_vk", !.result = "Ok",
                                        !.proof_type = Groth16, !.vk_hash = vk_hash]
    /\ UNCHANGED <<rev, paused, admin, nullifiers, verification_count, vk_registry, precomputed_data, vcall, g16, pv, fcall, proof_attestor>>

\* register_vk_typed(proof_type, vk)
lib_register_vk_typed ==
    /\ rev = "lib"
    /\ \E proof_type \in ProofTypeArgs, vk \in Range(ContractVkSeq) :
         LET vk_hash == keccak256(vk)
             key == <<proof_type, 0, vk_hash>>
             pre == compute_precomputed_pairing(vk)
         IN IF ~ProofType_from_u8_ok(proof_type)
            THEN /\ last' = [LastIdle EXCEPT !.op = "register_vk_typed",
                                             !.result = "Err(InvalidProofType)",
                                             !.proof_type = proof_type]
                 /\ UNCHANGED <<verification_keys, precomputed_pairings, registrations>>
            ELSE /\ Cardinality(registrations \cup {key}) <= MaxRegs
                 /\ IF ~is_vk_registered(vk_hash)
                    THEN /\ verification_keys' = [verification_keys EXCEPT ![vk_hash] = vk]
                         /\ precomputed_pairings' =
                               IF proof_type = Groth16 /\ pre.err = ""
                               THEN [precomputed_pairings EXCEPT ![vk_hash] = pre.bytes]
                               ELSE precomputed_pairings
                    ELSE UNCHANGED <<verification_keys, precomputed_pairings>>
                 /\ registrations' = registrations \cup {key}
                 /\ last' = [LastIdle EXCEPT !.op = "register_vk_typed", !.result = "Ok",
                                             !.proof_type = proof_type, !.vk_hash = vk_hash]
    /\ UNCHANGED <<rev, paused, admin, nullifiers, verification_count, vk_registry, precomputed_data, vcall, g16, pv, fcall, proof_attestor>>

\* verify_universal(universal_proof_bytes)
lib_verify_universal ==
    /\ rev = "lib"
    /\ verification_count < MaxCount
    /\ \E header \in UniversalProofHeaders :
         LET key == <<header.proof_type, header.program_id, header.vk_hash>>
             decoded == UniversalProof_decode_ok(header)
             vk_data == IF decoded THEN vk_registry[key] ELSE EmptyBytes
             early == IF paused THEN "Err(ContractPaused)"
                      ELSE IF ~decoded THEN "Err(InvalidProofFormat)"
                      ELSE IF is_empty(vk_data) THEN "Err(VKNotRegistered)"
                      ELSE ""
         IN IF early # ""
            THEN /\ UNCHANGED verification_count
                 /\ last' = [LastIdle EXCEPT !.op = "verify_universal", !.result = early,
                                             !.proof_type = header.proof_type,
                                             !.program_id = header.program_id,
                                             !.vk_hash = header.vk_hash]
            ELSE \E call \in ContractCalls, gas_budget \in GasBudgets, overflow_checks \in BOOLEAN :
                   LET descriptor == UniversalProofDescriptor_new(header.proof_type, "BN254", "Keccak256", 0,
                                         call.public_inputs.len \div 32, call.proof.len,
                                         header.vk_hash, header.vk_hash)
                       registered_vk == RegisteredVK_new(header.proof_type, header.vk_hash, header.vk_hash, "BN254", 1024)
                       bound == validate_proof_type_binding(DefaultValidator, descriptor, registered_vk) = "Ok"
                       d == verify_universal_proof_with_budget(header.proof_type, call.proof,
                                call.public_inputs, vk_data, gas_budget, overflow_checks)
                       r == IF ~bound THEN "Err(InvalidProofFormat)"
                            ELSE IF d \in {"Ok(true)", "Ok(false)", "panic"} THEN d
                            ELSE "Err(VerificationFailed)"
                   IN /\ verification_count' = count_after(r)
                      /\ last' = [LastIdle EXCEPT
                                    !.op = "verify_universal", !.result = r,
                                    !.pairings = IF bound THEN groth16_pairings(d, FALSE) ELSE 0,
                                    !.resolved = TRUE,
                                    !.proof_type = header.proof_type,
                                    !.program_id = header.program_id,
                                    !.vk_hash = header.vk_hash]
    /\ UNCHANGED <<rev, paused, admin, nullifiers, vk_registry, precomputed_data, verification_keys, precomputed_pairings, registrations, vcall, g16, pv, fcall, proof_attestor>>

\* Batches passed to the contract: the empty one, a valid proof, a valid and
\* a false proof, and one with an input vector missing.
ContractBatches ==
    { [proofs |-> <<>>, public_inputs |-> <<>>],
      [proofs |-> <<G16Proof(128, "ok", 0)>>, public_inputs |-> <<G16Inputs(<<1>>, 0)>>],
      [proofs |-> <<G16Proof(128, "ok", 0), G16Proof(128, "ok", 1)>>,
       public_inputs |-> <<G16Inputs(<<1>>, 0), G16Inputs(<<1>>, 0)>>],
      [proofs |-> <<G16Proof(128, "ok", 0)>>, public_inputs |-> <<>>] }

\* Number of pairings a batch call computed: every entry of a completed batch
\* runs one multi_pairing (entries that fail to decode are not modelled in
\* the contract's batches).
batch_pairings(b, with_precomputed) ==
    IF b.status = "Ok" THEN Len(b.results) * (IF with_precomputed THEN 3 ELSE 4) ELSE 0

\* results.iter().filter(|&&r| r).count()
valid_count(results) == Cardinality({ i \in DOMAIN results : results[i] })

\* verify(proof_type, proof, public_inputs, vk_hash)
lib_verify ==
    /\ rev = "lib"
    /\ verification_count < MaxCount
    /\ \E proof_type \in ProofTypeArgs, vk_hash \in Hashes :
         LET vk_data == verification_keys[vk_hash]
             precomputed_pairing == precomputed_pairings[vk_hash]
             early == IF paused THEN "Err(ContractPaused)"
                      ELSE IF ~ProofType_from_u8_ok(proof_type) THEN "Err(InvalidProofType)"
                      ELSE IF proof_type # Groth16 THEN "Err(ProofTypeNotSupported)"
                      ELSE IF is_empty(vk_data) THEN "Err(VKNotRegistered)"
                      ELSE ""
         IN IF early # ""
            THEN /\ UNCHANGED verification_count
                 /\ last' = [LastIdle EXCEPT !.op = "verify", !.result = early,
                                             !.proof_type = proof_type, !.vk_hash = vk_hash]
            ELSE \E call \in ContractCalls, overflow_checks \in BOOLEAN :
                   LET g == run_groth16(call.proof, call.public_inputs, vk_data, precomputed_pairing, overflow_checks)
                       r == g
                   IN /\ verification_count' = count_after(r)
                      /\ last' = [LastIdle EXCEPT
                                    !.op = "verify", !.result = r,
                                    !.pairings = groth16_pairings(g, ~is_empty(precomputed_pairing)),
                                    !.resolved = TRUE,
                                    !.proof_type = proof_type, !.vk_hash = vk_hash]
    /\ UNCHANGED <<rev, paused, admin, nullifiers, vk_registry, precomputed_data, verification_keys, precomputed_pairings, registrations, vcall, g16, pv, fcall, proof_attestor>>

\* batch_verify(proof_type, proofs, public_inputs, vk_hash)
lib_batch_verify ==
    /\ rev = "lib"
    /\ verification_count < MaxCount
    /\ \E proof_type \in ProofTypeArgs, vk_hash \in Hashes, lengths_match \in BOOLEAN :
         LET vk_data == verification_keys[vk_hash]
             precomputed_pairing == precomputed_pairings[vk_hash]
             early == IF paused THEN "Err(ContractPaused)"
                      ELSE IF ~lengths_match THEN "Err(InvalidInputSize)"
                      ELSE IF ~ProofType_from_u8_ok(proof_type) THEN "Err(InvalidProofType)"
                      ELSE IF proof_type # Groth16 THEN "Err(ProofTypeNotSupported)"
                      ELSE IF is_empty(vk_data) THEN "Err(VKNotRegistered)"
                      ELSE ""
         IN IF early # ""
            THEN /\ UNCHANGED verification_count
                 /\ last' = [LastIdle EXCEPT !.op = "batch_verify", !.result = early,
                                             !.proof_type = proof_type, !.vk_hash = vk_hash]
            ELSE \E batch \in { x \in ContractBatches : Len(x.proofs) = Len(x.public_inputs) } :
                   LET b == groth16_batch_verify(batch.proofs, batch.public_inputs, vk_data, precomputed_pairing)
                       results == IF b.status = "Ok" THEN b.results ELSE <<>>
                   IN /\ verification_count' = verification_count + valid_count(results)
                      /\ last' = [LastIdle EXCEPT
                                    !.op = "batch_verify", !.result = b.status,
                                    !.results = results,
                                    !.pairings = batch_pairings(b, ~is_empty(precomputed_pairing)),
                                    !.resolved = TRUE,
                                    !.proof_type = proof_type, !.vk_hash = vk_hash]
    /\ UNCHANGED <<rev, paused, admin, nullifiers, vk_registry, precomputed_data, verification_keys, precomputed_pairings, registrations, vcall, g16, pv, fcall, proof_attestor>>

\* unpause(): admin only.
lib_unpause ==
    /\ rev = "lib"
    /\ \E sender \in Addresses :
         IF sender # admin
         THEN /\ last' = [LastIdle EXCEPT !.op = "unpause", !.sender = sender, !.result = "Err(Unauthorized)"]
              /\ UNCHANGED paused
         ELSE /\ paused' = FALSE
              /\ last' = [LastIdle EXCEPT !.op = "unpause", !.sender = sender, !.result = "Ok"]
    /\ UNCHANGED <<rev, admin, nullifiers, verification_count, vk_registry, precomputed_data, verification_keys, precomputed_pairings, registrations, vcall, g16, pv, fcall, proof_attestor>>

\* A faulty mark_nullifier_used that stores the marked nullifier in place of
\* the set of used ones.
mark_nullifier_used_overwriting ==
    /\ rev = "lib"
    /\ \E nullifier \in Nullifiers :
         /\ nullifiers' = {nullifier}
         /\ last' = [LastIdle EXCEPT !.op = "mark_nullifier_used",
                                     !.result = IF is_nullifier_used(nullifier) THEN "Ok(false)" ELSE "Ok(true)",
                                     !.nullifier = nullifier]
    /\ UNCHANGED <<rev, paused, admin, verification_count, vk_registry, precomputed_data, verification_keys, precomputed_pairings, registrations, vcall, g16, pv, fcall, proof_attestor>>

\* A faulty mark_nullifier_used that does not look the nullifier up first.
mark_nullifier_used_unchecked ==
    /\ rev = "lib"
    /\ \E nullifier \in Nullifiers :
         /\ nullifiers' = nullifiers \cup {nullifier}
         /\ last' = [LastIdle EXCEPT !.op = "mark_nullifier_used",
                                     !.result = "Ok(true)", !.nullifier = nullifier]
    /\ UNCHANGED <<rev, paused, admin, verification_count, vk_registry, precomputed_data, verification_keys, precomputed_pairings, registrations, vcall, g16, pv, fcall, proof_attestor>>

\* mark_nullifier_used(nullifier): Ok(true) on first use, Ok(false) after.
lib_mark_nullifier_used ==
    /\ rev = "lib"
    /\ \E nullifier \in Nullifiers :
         IF paused
         THEN /\ last' = [LastIdle EXCEPT !.op = "mark_nullifier_used",
                                          !.result = "Err(ContractPaused)", !.nullifier = nullifier]
              /\ UNCHANGED nullifiers
         ELSE IF is_nullifier_used(nullifier)
         THEN /\ last' = [LastIdle EXCEPT !.op = "mark_nullifier_used",
                                          !.result = "Ok(false)", !.nullifier = nullifier]
              /\ UNCHANGED nullifiers
         ELSE /\ nullifiers' = nullifiers \cup {nullifier}
              /\ last' = [LastIdle EXCEPT !.op = "mark_nullifier_used",
                                          !.result = "Ok(true)", !.nullifier = nullifier]
    /\ UNCHANGED <<rev, paused, admin, verification_count, vk_registry, precomputed_data, verification_keys, precomputed_pairings, registrations, vcall, g16, pv, fcall, proof_attestor>>

\* ---------------------------------------------------- contract (lib_v06.rs)
\* only_admin: the caller must be the stored admin.
only_admin(sender) == IF sender # admin THEN "Err(Unauthorized)" ELSE "Ok"

\* verify_groth16(proof, public_inputs, vk_hash)
v06_verify_groth16 ==
    /\ rev = "v06"
    /\ verification_count < MaxCount
    /\ \E vk_hash \in Hashes :
         LET vk_data == verification_keys[vk_hash]
             precomputed_pairing == precomputed_pairings[vk_hash]
             early == IF paused THEN "Err(ContractPaused)"
                      ELSE IF is_empty(vk_data) THEN "Err(VKNotRegistered)"
                      ELSE ""
         IN IF early # ""
            THEN /\ UNCHANGED verification_count
                 /\ last' = [LastIdle EXCEPT !.op = "verify_groth16", !.result = early,
                                             !.proof_type = Groth16, !.vk_hash = vk_hash]
            ELSE \E call \in ContractCalls, overflow_checks \in BOOLEAN :
                   LET g == run_groth16(call.proof, call.public_inputs, vk_data, precomputed_pairing, overflow_checks)
                       r == g
                   IN /\ verification_count' = count_after(r)
                      /\ last' = [LastIdle EXCEPT
                                    !.op = "verify_groth16", !.result = r,
                                    !.pairings = groth16_pairings(g, ~is_empty(precomputed_pairing)),
                                    !.resolved = TRUE,
                                    !.proof_type = Groth16, !.vk_hash = vk_hash]
    /\ UNCHANGED <<rev, paused, admin, nullifiers, vk_registry, precomputed_data, verification_keys, precomputed_pairings, registrations, vcall, g16, pv, fcall, proof_attestor>>

\* register_vk(vk)
v06_register_vk ==
    /\ rev = "v06"
    /\ \E vk \in Range(ContractVkSeq) :
         LET vk_hash == keccak256(vk)
             key == <<Groth16, 0, vk_hash>>
             pre == compute_precomputed_pairing(vk)
         IN /\ Cardinality(registrations \cup {key}) <= MaxRegs
            /\ IF ~is_vk_registered(vk_hash)
               THEN /\ verification_keys' = [verification_keys EXCEPT ![vk_hash] = vk]
                    /\ precomputed_pairings' =
                          IF pre.err = ""
                          THEN [precomputed_pairings EXCEPT ![vk_hash] = pre.bytes]
                          ELSE precomputed_pairings
               ELSE UNCHANGED <<verification_keys, precomputed_pairings>>
            /\ registrations' = registrations \cup {key}
            /\ last' = [LastIdle EXCEPT !.op = "register_vk", !.result = "Ok",
                                        !.proof_type = Groth16, !.vk_hash = vk_hash]
    /\ UNCHANGED <<rev, paused, admin, nullifiers, verification_count, vk_registry, precomputed_data, vcall, g16, pv, fcall, proof_attestor>>

\* pause(): admin only.
v06_pause ==
    /\ rev = "v06"
    /\ \E sender \in Addresses :
         IF only_admin(sender) # "Ok"
         THEN /\ last' = [LastIdle EXCEPT !.op = "pause", !.sender = sender, !.result = only_admin(sender)]
              /\ UNCHANGED <<paused, admin>>
         ELSE /\ paused' = TRUE
              /\ UNCHANGED admin
              /\ last' = [LastIdle EXCEPT !.op = "pause", !.sender = sender, !.result = "Ok"]
    /\ UNCHANGED <<rev, nullifiers, verification_count, vk_registry, precomputed_data, verification_keys, precomputed_pairings, registrations, vcall, g16, pv, fcall, proof_attestor>>

\* unpause(): admin only.
v06_unpause ==
    /\ rev = "v06"
    /\ \E sender \in Addresses :
         IF only_admin(sender) # "Ok"
         THEN /\ last' = [LastIdle EXCEPT !.op = "unpause", !.sender = sender, !.result = only_admin(sender)]
              /\ UNCHANGED <<paused, admin>>
         ELSE /\ paused' = FALSE
              /\ UNCHANGED admin
              /\ last' = [LastIdle EXCEPT !.op = "unpause", !.sender = sender, !.result = "Ok"]
    /\ UNCHANGED <<rev, nullifiers, verification_count, vk_registry, precomputed_data, verification_keys, precomputed_pairings, registrations, vcall, g16, pv, fcall, proof_attestor>>

\* transfer_admin(new_admin): admin only.
v06_transfer_admin ==
    /\ rev = "v06"
    /\ \E sender \in Addresses, new_admin \in Addresses :
         IF only_admin(sender) # "Ok"
         THEN /\ last' = [LastIdle EXCEPT !.op = "transfer_admin", !.sender = sender, !.result = only_admin(sender)]
              /\ UNCHANGED <<paused, admin>>
         ELSE /\ admin' = new_admin
              /\ UNCHANGED paused
              /\ last' = [LastIdle EXCEPT !.op = "transfer_admin", !.sender = sender, !.result = "Ok"]
    /\ UNCHANGED <<rev, nullifiers, verification_count, vk_registry, precomputed_data, verification_keys, precomputed_pairings, registrations, vcall, g16, pv, fcall, proof_attestor>>

\* mark_nullifier_used(nullifier): no pause check; a used nullifier is
\* refused with the error InvalidInputSize.
v06_mark_nullifier_used ==
    /\ rev = "v06"
    /\ \E nullifier \in Nullifiers :
         IF is_nullifier_used(nullifier)
         THEN /\ last' = [LastIdle EXCEPT !.op = "mark_nullifier_used",
                                          !.result = "Err(InvalidInputSize)", !.nullifier = nullifier]
              /\ UNCHANGED nullifiers
         ELSE /\ nullifiers' = nullifiers \cup {nullifier}
              /\ last' = [LastIdle EXCEPT !.op = "mark_nullifier_used",
                                          !.result = "Ok", !.nullifier = nullifier]
    /\ UNCHANGED <<rev, paused, admin, verification_count, vk_registry, precomputed_data, verification_keys, precomputed_pairings, registrations, vcall, g16, pv, fcall, proof_attestor>>

\* --------------------------------------------------- contract (lib_0.10.rs)
\* .map_err(|_| UZKVError::VerificationFailed(VerificationFailed {}))
v010_map_err(g) == IF g \in {"Ok(true)", "Ok(false)", "panic"} THEN g ELSE "Err(VerificationFailed)"

v010_map_batch_err(status) == IF status \in {"Ok", "panic"} THEN status ELSE "Err(VerificationFailed)"

\* verify_groth16(proof, public_inputs, vk_hash): every error of the Groth16
\* module is returned as VerificationFailed.
v010_verify_groth16 ==
    /\ rev = "v010"
    /\ verification_count < MaxCount
    /\ \E vk_hash \in Hashes :
         LET vk_data == verification_keys[vk_hash]
             precomputed_pairing == precomputed_pairings[vk_hash]
             early == IF paused THEN "Err(ContractPaused)"
                      ELSE IF is_empty(vk_data) THEN "Err(VKNotRegistered)"
                      ELSE ""
         IN IF early # ""
            THEN /\ UNCHANGED verification_count
                 /\ last' = [LastIdle EXCEPT !.op = "verify_groth16", !.result = early,
                                             !.proof_type = Groth16, !.vk_hash = vk_hash]
            ELSE \E call \in ContractCalls, overflow_checks \in BOOLEAN :
                   LET g == run_groth16(call.proof, call.public_inputs, vk_data, precomputed_pairing, overflow_checks)
                       r == v010_map_err(g)
                   IN /\ verification_count' = count_after(r)
                      /\ last' = [LastIdle EXCEPT
                                    !.op = "verify_groth16", !.result = r,
                                    !.pairings = groth16_pairings(g, ~is_empty(precomputed_pairing)),
                                    !.resolved = TRUE,
                                    !.proof_type = Groth16, !.vk_hash = vk_hash]
    /\ UNCHANGED <<rev, paused, admin, nullifiers, vk_registry, precomputed_data, verification_keys, precomputed_pairings, registrations, vcall, g16, pv, fcall, proof_attestor>>

\* register_vk(vk)
v010_register_vk ==
    /\ rev = "v010"
    /\ \E vk \in Range(ContractVkSeq) :
         LET vk_hash == keccak256(vk)
             key == <<Groth16, 0, vk_hash>>
             pre == compute_precomputed_pairing(vk)
         IN /\ Cardinality(registrations \cup {key}) <= MaxRegs
            /\ IF ~is_vk_registered(vk_hash)
               THEN /\ verification_keys' = [verification_keys EXCEPT ![vk_hash] = vk]
                    /\ precomputed_pairings' =
                          IF pre.err = ""
                          THEN [precomputed_pairings EXCEPT ![vk_hash] = pre.bytes]
                          ELSE precomputed_pairings
               ELSE UNCHANGED <<verification_keys, precomputed_pairings>>
            /\ registrations' = registrations \cup {key}
            /\ last' = [LastIdle EXCEPT !.op = "register_vk", !.result = "Ok",
                                        !.proof_type = Groth16, !.vk_hash = vk_hash]
    /\ UNCHANGED <<rev, paused, admin, nullifiers, verification_count, vk_registry, precomputed_data, vcall, g16, pv, fcall, proof_attestor>>

\* verify(proof_type, proof, public_inputs, vk_hash): Groth16 only.
v010_verify ==
    /\ rev = "v010"
    /\ verification_count < MaxCount
    /\ \E proof_type \in ProofTypeArgs, vk_hash \in Hashes :
         LET vk_data == verification_keys[vk_hash]
             precomputed_pairing == precomputed_pairings[vk_hash]
             early == IF paused THEN "Err(ContractPaused)"
                      ELSE IF proof_type # 0 THEN "Err(ProofTypeNotSupported)"
                      ELSE IF is_empty(vk_data) THEN "Err(VKNotRegistered)"
                      ELSE ""
         IN IF early # ""
            THEN /\ UNCHANGED verification_count
                 /\ last' = [LastIdle EXCEPT !.op = "verify", !.result = early,
                                             !.proof_type = proof_type, !.vk_hash = vk_hash]
            ELSE \E call \in ContractCalls, overflow_checks \in BOOLEAN :
                   LET g == run_groth16(call.proof, call.public_inputs, vk_data, precomputed_pairing, overflow_checks)
                       r == v010_map_err(g)
                   IN /\ verification_count' = count_after(r)
                      /\ last' = [LastIdle EXCEPT
                                    !.op = "verify", !.result = r,
                                    !.pairings = groth16_pairings(g, ~is_empty(precomputed_pairing)),
                                    !.resolved = TRUE,
                                    !.proof_type = proof_type, !.vk_hash = vk_hash]
    /\ UNCHANGED <<rev, paused, admin, nullifiers, vk_registry, precomputed_data, verification_keys, precomputed_pairings, registrations, vcall, g16, pv, fcall, proof_attestor>>

\* batch_verify(proof_type, proofs, public_inputs_vec, vk_hash)
v010_batch_verify ==
    /\ rev = "v010"
    /\ verification_count < MaxCount
    /\ \E proof_type \in ProofTypeArgs, vk_hash \in Hashes, lengths_match \in BOOLEAN :
         LET vk_data == verification_keys[vk_hash]
             precomputed_pairing == precomputed_pairings[vk_hash]
             early == IF paused THEN "Err(ContractPaused)"
                      ELSE IF ~lengths_match THEN "Err(InvalidInputSize)"
                      ELSE IF proof_type # 0 THEN "Err(ProofTypeNotSupported)"
                      ELSE IF is_empty(vk_data) THEN "Err(VKNotRegistered)"
                      ELSE ""
         IN IF early # ""
            THEN /\ UNCHANGED verification_count
                 /\ last' = [LastIdle EXCEPT !.op = "batch_verify", !.result = early,
                                             !.proof_type = proof_type, !.vk_hash = vk_hash]
            ELSE \E batch \in { x \in ContractBatches : Len(x.proofs) = Len(x.public_inputs) } :
                   LET b == groth16_batch_verify(batch.proofs, batch.public_inputs, vk_data, precomputed_pairing)
                       results == IF b.status = "Ok" THEN b.results ELSE <<>>
                   IN /\ verification_count' = verification_count + valid_count(results)
                      /\ last' = [LastIdle EXCEPT
                                    !.op = "batch_verify", !.result = v010_map_batch_err(b.status),
                                    !.results = results,
                                    !.pairings = batch_pairings(b, ~is_empty(precomputed_pairing)),
                                    !.resolved = TRUE,
                                    !.proof_type = proof_type, !.vk_hash = vk_hash]
    /\ UNCHANGED <<rev, paused, admin, nullifiers, vk_registry, precomputed_data, verification_keys, precomputed_pairings, registrations, vcall, g16, pv, fcall, proof_attestor>>

\* mark_nullifier_used(nullifier)
v010_mark_nullifier_used ==
    /\ rev = "v010"
    /\ \E nullifier \in Nullifiers :
         IF paused
         THEN /\ last' = [LastIdle EXCEPT !.op = "mark_nullifier_used",
                                          !.result = "Err(ContractPaused)", !.nullifier = nullifier]
              /\ UNCHANGED nullifiers
         ELSE IF is_nullifier_used(nullifier)
         THEN /\ last' = [LastIdle EXCEPT !.op = "mark_nullifier_used",
                                          !.result = "Ok(false)", !.nullifier = nullifier]
              /\ UNCHANGED nullifiers
         ELSE /\ nullifiers' = nullifiers \cup {nullifier}
              /\ last' = [LastIdle EXCEPT !.op = "mark_nullifier_used",
                                          !.result = "Ok(true)", !.nullifier = nullifier]
    /\ UNCHANGED <<rev, paused, admin, verification_count, vk_registry, precomputed_data, verification_keys, precomputed_pairings, registrations, vcall, g16, pv, fcall, proof_attestor>>

\* ------------------------------------------------ storage library (storage.rs)
\* The one-byte value `true` of a StorageBool slot.
StoredTrue == G16Vk(1, "garbage", <<>>)

\* register_vk(vk_hash): asserts the key is not registered (vk_count is the
\* number of registered hashes and is read off verification_keys).
storage_register_vk ==
    /\ rev = "storage"
    /\ \E vk_hash \in Hashes :
         LET key == <<Groth16, 0, vk_hash>> IN
         IF is_vk_registered(vk_hash)
         THEN /\ last' = [LastIdle EXCEPT !.op = "register_vk", !.result = "panic", !.vk_hash = vk_hash]
              /\ UNCHANGED <<verification_keys, registrations>>
         ELSE /\ Cardinality(registrations \cup {key}) <= MaxRegs
              /\ verification_keys' = [verification_keys EXCEPT ![vk_hash] = StoredTrue]
              /\ registrations' = registrations \cup {key}
              /\ last' = [LastIdle EXCEPT !.op = "register_vk", !.result = "Ok", !.vk_hash = vk_hash]
    /\ UNCHANGED <<rev, paused, admin, nullifiers, verification_count, vk_registry, precomputed_data, precomputed_pairings, vcall, g16, pv, fcall, proof_attestor>>

\* set_paused(state): no authorization.
storage_set_paused ==
    /\ rev = "storage"
    /\ \E state \in BOOLEAN :
         /\ paused' = state
         /\ last' = [LastIdle EXCEPT !.op = "set_paused", !.result = "Ok"]
    /\ UNCHANGED <<rev, admin, nullifiers, verification_count, vk_registry, precomputed_data, verification_keys, precomputed_pairings, registrations, vcall, g16, pv, fcall, proof_attestor>>

\* mark_nullifier_used(nullifier): asserts the nullifier is unused.
storage_mark_nullifier_used ==
    /\ rev = "storage"
    /\ \E nullifier \in Nullifiers :
         IF is_nullifier_used(nullifier)
         THEN /\ last' = [LastIdle EXCEPT !.op = "mark_nullifier_used",
                                          !.result = "panic", !.nullifier = nullifier]
              /\ UNCHANGED nullifiers
         ELSE /\ nullifiers' = nullifiers \cup {nullifier}
              /\ last' = [LastIdle EXCEPT !.op = "mark_nullifier_used",
                                          !.result = "Ok", !.nullifier = nullifier]
    /\ UNCHANGED <<rev, paused, admin, verification_count, vk_registry, precomputed_data, verification_keys, precomputed_pairings, registrations, vcall, g16, pv, fcall, proof_attestor>>

\* increment_verifications()
storage_increment_verifications ==
    /\ rev = "storage"
    /\ verification_count < MaxCount
    /\ verification_count' = verification_count + 1
    /\ last' = [LastIdle EXCEPT !.op = "increment_verifications", !.result = "Ok"]
    /\ UNCHANGED <<rev, paused, admin, nullifiers, vk_registry, precomputed_data, verification_keys, precomputed_pairings, registrations, vcall, g16, pv, fcall, proof_attestor>>

\* ------------------------------------------------------- plonk/transcript.rs
\* a ^ n in the scalar field
RECURSIVE fr_pow(_, _)
fr_pow(a, n) == IF n = 0 THEN 1 % FieldP ELSE fr_mul(a, fr_pow(a, n - 1))

\* Field::inverse: None for zero
fr_inverse_ok(a) == a % FieldP # 0

fr_inverse(a) == CHOOSE y \in Fp : fr_mul(a, y) = 1

\* The transcript labels, as the byte strings' codes.
labels ==
    [PLONK_PROTOCOL |-> 11, VK_DOMAIN |-> 12, WIRE_COMMITMENT |-> 13,
     PERMUTATION_COMMITMENT |-> 14, PERMUTATION_EVAL |-> 15,
     QUOTIENT_COMMITMENT |-> 16, BETA_CHALLENGE |-> 17, GAMMA_CHALLENGE |-> 18,
     ALPHA_CHALLENGE |-> 19, ZETA_CHALLENGE |-> 20, V_CHALLENGE |-> 21,
     U_CHALLENGE |-> 22, WIRE_EVAL |-> 23, SELECTOR_EVAL |-> 24,
     OPENING_PROOF |-> 25, PUBLIC_INPUT |-> 26]

\* Keccak256::update with one item: the hasher state, a running digest, is
\* mixed with the item (a fixed mixing stands for the sponge).
Keccak256_update(hasher, item) == (7 * hasher + item + 1) % 97

\* The hasher states.
Digests == 0 .. 96

\* Keccak256::update over a byte string, item by item
RECURSIVE Keccak256_update_all(_, _)
Keccak256_update_all(hasher, items) ==
    IF hasher \in Digests /\ items # <<>>
    THEN Keccak256_update_all(Keccak256_update(hasher, Head(items)), Tail(items))
    ELSE hasher

\* Transcript::new: the hasher has absorbed the domain label.
Transcript_new(label) == Keccak256_update(1, label)

\* Transcript::absorb_field
absorb_field(hasher, label, element) == Keccak256_update(Keccak256_update(hasher, label), element)

\* Transcript::absorb_point
absorb_point(hasher, label, point) == Keccak256_update(Keccak256_update(hasher, label), point)

\* Transcript::absorb_bytes: label, length, data
absorb_bytes(hasher, label, data) ==
    Keccak256_update_all(Keccak256_update(Keccak256_update(hasher, label), Len(data)), data)

\* absorb_field / absorb_point over a list, one call per element
RECURSIVE absorb_each(_, _, _)
absorb_each(hasher, label, elements) ==
    IF hasher \in Digests /\ elements # <<>>
    THEN absorb_each(absorb_field(hasher, label, Head(elements)), label, Tail(elements))
    ELSE hasher

\* Transcript::squeeze_challenge: the digest of the state and the challenge
\* label, reduced into the field; the digest is fed back into the hasher.
squeeze_challenge(hasher, label) ==
    [challenge |-> Keccak256_update(hasher, label) % FieldP,
     hasher |-> Keccak256_update(hasher, Keccak256_update(hasher, label))]

\* ------------------------------------------------------------- plonk/kzg.rs
\* verify_kzg_opening: e(proof, srs_g2) * e(y G1 - z proof - C, G2) == 1
verify_kzg_opening(commitment, z, y, proof, srs_g2) ==
    LET y_g1 == fr_mul(1, y)
        neg_z_proof == neg(fr_mul(proof, z))
        neg_c == neg(commitment)
        term2 == fr_add(fr_add(y_g1, neg_z_proof), neg_c)
    IN multi_pairing(<<proof, term2>>, <<srs_g2, 1>>) = GT_one

\* The aggregation loop of verify_kzg_batch_opening_with_challenge: the sum
\* of terms[i] * r^i, r^0 being the first coefficient.
RECURSIVE kzg_aggregate(_, _, _)
kzg_aggregate(terms, current_r, challenge) ==
    IF terms = <<>> THEN 0
    ELSE fr_add(fr_mul(Head(terms), current_r),
                kzg_aggregate(Tail(terms), fr_mul(current_r, challenge), challenge))

\* verify_kzg_batch_opening_with_challenge
verify_kzg_batch_opening_with_challenge(commitments, eval_point, claimed_evals, proof, srs_g2, challenge) ==
    verify_kzg_opening(kzg_aggregate(commitments, 1 % FieldP, challenge), eval_point,
                       kzg_aggregate(claimed_evals, 1 % FieldP, challenge), proof, srs_g2)

\* verify_kzg_batch_opening: "Ok(true)", "Ok(false)" or the size error; the
\* batching challenge is the constant 2.
verify_kzg_batch_opening(commitments, eval_point, claimed_evals, proof, srs_g2) ==
    IF Len(commitments) # Len(claimed_evals) \/ commitments = <<>> THEN "Err(InvalidInputSize)"
    ELSE IF verify_kzg_batch_opening_with_challenge(commitments, eval_point, claimed_evals, proof, srs_g2, 2 % FieldP)
         THEN "Ok(true)" ELSE "Ok(false)"

\* ----------------------------------------------------------- plonk/plonk.rs
\* usize::is_power_of_two
is_power_of_two(n) == \E k \in 0 .. 20 : n = 2 ^ k

\* PlonkVerificationKey::validate: "Ok" or its error
PlonkVerificationKey_validate(vk) ==
    IF ~is_power_of_two(vk.n) THEN "Err(InvalidCircuitSize)"
    ELSE IF ~vk.points_valid THEN "Err(InvalidG1Point)"
    ELSE IF fr_pow(vk.omega, vk.n) # 1 % FieldP THEN "Err(InvalidDomain)"
    ELSE "Ok"

\* encode_vk_for_transcript
encode_vk_for_transcript(vk) ==
    <<vk.n, vk.num_public_inputs>> \o vk.selector_commitments \o vk.permutation_commitments
        \o <<vk.lagrange_first, vk.lagrange_last, vk.omega, vk.k1, vk.k2>>

\* compute_public_input_eval after the first i inputs: the running result
\* and omega^i, or the domain error.
\* The denominator (point - omega^i) * n of the Lagrange basis L_i(point)
lagrange_denominator(point, omega_i, n) == fr_mul(fr_sub(point, omega_i), n % FieldP)

\* L_i(point) = (omega^i / n) * Z_H(point) / (point - omega^i), the
\* denominator being invertible
lagrange_basis(point, omega_i, n) ==
    fr_mul(fr_mul(fr_sub(fr_pow(point, n), 1), omega_i), fr_inverse(lagrange_denominator(point, omega_i, n)))

\* The loop of compute_public_input_eval over the remaining inputs, from the
\* running result and omega^i: the final result, or the domain error.
RECURSIVE public_input_eval_loop(_, _, _, _, _, _)
public_input_eval_loop(public_inputs, point, omega, n, result, omega_i) ==
    IF public_inputs = <<>> THEN [err |-> FALSE, result |-> result]
    ELSE IF ~fr_inverse_ok(lagrange_denominator(point, omega_i, n)) THEN [err |-> TRUE, result |-> result]
    ELSE public_input_eval_loop(Tail(public_inputs), point, omega, n,
             fr_sub(result, fr_mul(Head(public_inputs), lagrange_basis(point, omega_i, n))),
             fr_mul(omega_i, omega))

\* compute_public_input_eval: PI(point) = -sum of public_inputs[i] * L_i(point)
compute_public_input_eval(public_inputs, point, omega, n) ==
    IF public_inputs = <<>> THEN [err |-> FALSE, result |-> 0]
    ELSE public_input_eval_loop(public_inputs, point, omega, n, 0, 1 % FieldP)

\* The arithmetic gate value of verify_gate_constraints:
\* q_L a + q_R b + q_O c + q_M a b + q_C + PI
gate_constraint(proof, pi_zeta) ==
    LET a_zeta == proof.wire_evals[1]
        b_zeta == proof.wire_evals[2]
        c_zeta == proof.wire_evals[3]
        ql_zeta == proof.selector_evals[1]
        qr_zeta == proof.selector_evals[2]
        qo_zeta == proof.selector_evals[3]
        qm_zeta == proof.selector_evals[4]
        qc_zeta == proof.selector_evals[5]
    IN fr_add(fr_add(fr_add(fr_add(fr_add(
           fr_mul(ql_zeta, a_zeta), fr_mul(qr_zeta, b_zeta)), fr_mul(qo_zeta, c_zeta)),
           fr_mul(fr_mul(qm_zeta, a_zeta), b_zeta)), qc_zeta), pi_zeta)

\* verify_gate_constraints: the constraint values are computed and dropped.
verify_gate_constraints(proof, vk, zeta, pi_zeta) ==
    LET gate == gate_constraint(proof, pi_zeta) IN "Ok"

\* A faulty verify_batch_openings that skips the separate opening at zeta * omega.
verify_batch_openings_zeta_only(proof, vk, srs, zeta) ==
    LET commitments_zeta == proof.wire_commitments \o vk.selector_commitments \o <<proof.permutation_commitment>>
        evals_zeta == proof.wire_evals \o proof.selector_evals \o <<proof.permutation_evals[1]>>
        batch_valid_zeta == verify_kzg_batch_opening(commitments_zeta, zeta, evals_zeta, proof.opening_proof_zeta, srs)
    IN  IF batch_valid_zeta \notin {"Ok(true)", "Ok(false)"} THEN [result |-> batch_valid_zeta, pairings |-> 0]
        ELSE IF batch_valid_zeta = "Ok(false)" THEN [result |-> "Err(InvalidProof)", pairings |-> 1]
        ELSE [result |-> "Ok", pairings |-> 2]

\* verify_batch_openings: "Ok" or its error, and the pairing checks made
verify_batch_openings(proof, vk, srs, zeta) ==
    LET zeta_omega == fr_mul(zeta, vk.omega)
        commitments_zeta == proof.wire_commitments \o vk.selector_commitments \o <<proof.permutation_commitment>>
        evals_zeta == proof.wire_evals \o proof.selector_evals \o <<proof.permutation_evals[1]>>
        batch_valid_zeta == verify_kzg_batch_opening(commitments_zeta, zeta, evals_zeta, proof.opening_proof_zeta, srs)
    IN  IF batch_valid_zeta \notin {"Ok(true)", "Ok(false)"} THEN [result |-> batch_valid_zeta, pairings |-> 0]
        ELSE IF batch_valid_zeta = "Ok(false)" THEN [result |-> "Err(InvalidProof)", pairings |-> 1]
        ELSE IF ~verify_kzg_opening(proof.permutation_commitment, zeta_omega, proof.permutation_evals[2], proof.opening_proof_omega, srs)
             THEN [result |-> "Err(InvalidProof)", pairings |-> 2]
        ELSE [result |-> "Ok", pairings |-> 2]

\* The Fiat-Shamir transcript of verify_plonk_proof up to the zeta challenge.
plonk_transcript_zeta(proof, vk, public_inputs) ==
    LET t0 == absorb_bytes(Transcript_new(labels.PLONK_PROTOCOL), labels.VK_DOMAIN, encode_vk_for_transcript(vk))
        t1 == absorb_each(t0, labels.PUBLIC_INPUT, public_inputs)
        t2 == absorb_each(t1, labels.WIRE_COMMITMENT, proof.wire_commitments)
        beta == squeeze_challenge(t2, labels.BETA_CHALLENGE)
        gamma == squeeze_challenge(beta.hasher, labels.GAMMA_CHALLENGE)
        t3 == absorb_point(gamma.hasher, labels.PERMUTATION_COMMITMENT, proof.permutation_commitment)
        alpha == squeeze_challenge(t3, labels.ALPHA_CHALLENGE)
        t4 == absorb_each(alpha.hasher, labels.QUOTIENT_COMMITMENT, proof.quotient_commitments)
    IN  squeeze_challenge(t4, labels.ZETA_CHALLENGE)

\* One operation on a transcript: the method called, its label, and the
\* message passed (the field of the proof or key, and an index into it).
TranscriptOp(kind, label, msg, index, value) ==
    [kind |-> kind, label |-> label, msg |-> msg, index |-> index, value |-> value]

\* One absorb call per element of a list, in the order of the list.
absorb_ops(kind, label, msg, values) ==
    [i \in 1 .. Len(values) |-> TranscriptOp(kind, label, msg, i, values[i])]

\* One squeeze_challenge call.
squeeze_op(label, msg) == <<TranscriptOp("squeeze_challenge", label, msg, 1, 0)>>

\* The same operations with the zeta challenge squeezed before the quotient
\* commitments are absorbed.
plonk_transcript_ops_early_zeta(proof, vk, public_inputs) ==
    <<TranscriptOp("absorb_bytes", labels.VK_DOMAIN, "vk", 1, 0)>>
    \o absorb_ops("absorb_field", labels.PUBLIC_INPUT, "public_inputs", public_inputs)
    \o absorb_ops("absorb_point", labels.WIRE_COMMITMENT, "wire_commitments", proof.wire_commitments)
    \o squeeze_op(labels.BETA_CHALLENGE, "beta") \o squeeze_op(labels.GAMMA_CHALLENGE, "gamma")
    \o absorb_ops("absorb_point", labels.PERMUTATION_COMMITMENT, "permutation_commitment", <<proof.permutation_commitment>>)
    \o squeeze_op(labels.ALPHA_CHALLENGE, "alpha")
    \o squeeze_op(labels.ZETA_CHALLENGE, "zeta")
    \o absorb_ops("absorb_point", labels.QUOTIENT_COMMITMENT, "quotient_commitments", proof.quotient_commitments)
    \o absorb_ops("absorb_field", labels.WIRE_EVAL, "wire_evals", proof.wire_evals)
    \o absorb_ops("absorb_field", labels.PERMUTATION_EVAL, "permutation_evals", proof.permutation_evals)
    \o absorb_ops("absorb_field", labels.SELECTOR_EVAL, "selector_evals", proof.selector_evals)
    \o squeeze_op(labels.V_CHALLENGE, "v")
    \o absorb_ops("absorb_point", labels.OPENING_PROOF, "opening_proof_zeta", <<proof.opening_proof_zeta>>)
    \o absorb_ops("absorb_point", labels.OPENING_PROOF, "opening_proof_omega", <<proof.opening_proof_omega>>)
    \o squeeze_op(labels.U_CHALLENGE, "u")

\* The absorb and squeeze calls verify_plonk_proof makes on its transcript,
\* in program order (steps 1 to 6).
plonk_transcript_ops(proof, vk, public_inputs) ==
    <<TranscriptOp("absorb_bytes", labels.VK_DOMAIN, "vk", 1, 0)>>
    \o absorb_ops("absorb_field", labels.PUBLIC_INPUT, "public_inputs", public_inputs)
    \o absorb_ops("absorb_point", labels.WIRE_COMMITMENT, "wire_commitments", proof.wire_commitments)
    \o squeeze_op(labels.BETA_CHALLENGE, "beta") \o squeeze_op(labels.GAMMA_CHALLENGE, "gamma")
    \o absorb_ops("absorb_point", labels.PERMUTATION_COMMITMENT, "permutation_commitment", <<proof.permutation_commitment>>)
    \o squeeze_op(labels.ALPHA_CHALLENGE, "alpha")
    \o absorb_ops("absorb_point", labels.QUOTIENT_COMMITMENT, "quotient_commitments", proof.quotient_commitments)
    \o squeeze_op(labels.ZETA_CHALLENGE, "zeta")
    \o absorb_ops("absorb_field", labels.WIRE_EVAL, "wire_evals", proof.wire_evals)
    \o absorb_ops("absorb_field", labels.PERMUTATION_EVAL, "permutation_evals", proof.permutation_evals)
    \o absorb_ops("absorb_field", labels.SELECTOR_EVAL, "selector_evals", proof.selector_evals)
    \o squeeze_op(labels.V_CHALLENGE, "v")
    \o absorb_ops("absorb_point", labels.OPENING_PROOF, "opening_proof_zeta", <<proof.opening_proof_zeta>>)
    \o absorb_ops("absorb_point", labels.OPENING_PROOF, "opening_proof_omega", <<proof.opening_proof_omega>>)
    \o squeeze_op(labels.U_CHALLENGE, "u")

\* verify_plonk_proof: the result, the number of pairing checks made, and
\* the operations made on the transcript
verify_plonk_proof(proof, vk, public_inputs, srs) ==
    IF Len(public_inputs) # vk.num_public_inputs
    THEN [result |-> "Err(InvalidPublicInput)", pairings |-> 0, transcript |-> <<>>]
    ELSE IF PlonkVerificationKey_validate(vk) # "Ok"
    THEN [result |-> PlonkVerificationKey_validate(vk), pairings |-> 0, transcript |-> <<>>]
    ELSE LET transcript == plonk_transcript_ops(proof, vk, public_inputs)
             zeta == plonk_transcript_zeta(proof, vk, public_inputs).challenge
             pi == compute_public_input_eval(public_inputs, zeta, vk.omega, vk.n)
         IN  IF pi.err THEN [result |-> "Err(InvalidDomain)", pairings |-> 0, transcript |-> transcript]
             ELSE IF verify_gate_constraints(proof, vk, zeta, pi.result) # "Ok"
                  THEN [result |-> verify_gate_constraints(proof, vk, zeta, pi.result), pairings |-> 0, transcript |-> transcript]
             ELSE LET openings == verify_batch_openings(proof, vk, srs, zeta) IN
                  IF openings.result # "Ok"
                  THEN [result |-> openings.result, pairings |-> openings.pairings, transcript |-> transcript]
                  ELSE [result |-> "Ok(true)", pairings |-> openings.pairings, transcript |-> transcript]

\* ------------------------------------------------------------ plonk/host.rs
\* u256_to_fr: reduction modulo the field order
u256_to_fr(v) == v % FieldP

\* HostTranscript::new("plonk")
HostTranscript_new == Keccak256_update(1, 31)

\* HostTranscript::absorb_bytes: the "input" tag, then the bytes
HostTranscript_absorb_bytes(state, bytes) == Keccak256_update(Keccak256_update(state, 32), bytes)

RECURSIVE HostTranscript_absorb_each(_, _)
HostTranscript_absorb_each(state, items) ==
    IF state \in Digests /\ items # <<>>
    THEN HostTranscript_absorb_each(HostTranscript_absorb_bytes(state, Head(items)), Tail(items))
    ELSE state

\* HostTranscript::squeeze_challenge: the digest, unreduced, fed back
HostTranscript_squeeze_challenge(state) ==
    [challenge |-> state, state |-> Keccak256_update(state, state)]

\* parse_g1: G1Affine::new asserts the point is on the curve
parse_g1_panics(on_curve) == ~on_curve

\* verify_kzg_single: e(proof, [x]2 - z[1]2) == e(C - y[1]1, [1]2)
verify_kzg_single(commitment, z, y, proof, srs_g2) ==
    LET lhs_g2 == fr_sub(srs_g2, fr_mul(1, z))
        rhs_g1 == fr_sub(commitment, fr_mul(1, y))
    IN fr_mul(proof, lhs_g2) = fr_mul(rhs_g1, 1)

\* verify_kzg_batch: aggregation with the v challenge, then one opening
verify_kzg_batch(commitments, z, evals, proof, srs_g2, challenge) ==
    verify_kzg_single(kzg_aggregate(commitments, 1 % FieldP, challenge), z,
                      kzg_aggregate(evals, 1 % FieldP, challenge), proof, srs_g2)

\* compute_pi_eval after the first i inputs
\* The loop of compute_pi_eval over the remaining inputs
RECURSIVE pi_eval_loop(_, _, _, _, _, _)
pi_eval_loop(pis, z_fr, omega, n, result, omega_i) ==
    IF pis = <<>> THEN [err |-> FALSE, result |-> result]
    ELSE IF ~fr_inverse_ok(lagrange_denominator(z_fr, omega_i, n)) THEN [err |-> TRUE, result |-> result]
    ELSE pi_eval_loop(Tail(pis), z_fr, omega, n,
             fr_add(result, fr_mul(u256_to_fr(Head(pis)), lagrange_basis(z_fr, omega_i, n))),
             fr_mul(omega_i, omega))

\* compute_pi_eval: the sum of pis[i] * L_i(z)
compute_pi_eval(pis, z, omega, n) == pi_eval_loop(pis, u256_to_fr(z), omega, n, 0, 1 % FieldP)

\* The challenges of verify_plonk_host: zeta and v.
host_transcript_challenges(proof, vk, public_inputs) ==
    LET t0 == HostTranscript_absorb_bytes(HostTranscript_new, vk.n)
        t1 == HostTranscript_absorb_each(t0, public_inputs)
        t2 == HostTranscript_absorb_each(t1, proof.wire_commitments)
        beta == HostTranscript_squeeze_challenge(t2)
        gamma == HostTranscript_squeeze_challenge(beta.state)
        t3 == HostTranscript_absorb_bytes(gamma.state, proof.permutation_commitment)
        alpha == HostTranscript_squeeze_challenge(t3)
        t4 == HostTranscript_absorb_each(alpha.state, proof.quotient_commitments)
        zeta == HostTranscript_squeeze_challenge(t4)
        t5 == HostTranscript_absorb_each(zeta.state, proof.wire_evals \o proof.permutation_evals \o proof.selector_evals)
        v_challenge == HostTranscript_squeeze_challenge(t5)
    IN  [zeta |-> zeta.challenge, v_challenge |-> v_challenge.challenge]

\* The absorb and squeeze calls verify_plonk_host makes on its transcript, in
\* program order; HostTranscript has no labels, every absorb goes through
\* absorb_bytes with the "input" tag.
host_transcript_ops(proof, vk, public_inputs) ==
    <<TranscriptOp("absorb_bytes", 32, "vk", 1, vk.n)>>
    \o absorb_ops("absorb_u256", 32, "public_inputs", public_inputs)
    \o absorb_ops("absorb_bytes", 32, "wire_commitments", proof.wire_commitments)
    \o squeeze_op(0, "beta") \o squeeze_op(0, "gamma")
    \o absorb_ops("absorb_bytes", 32, "permutation_commitment", <<proof.permutation_commitment>>)
    \o squeeze_op(0, "alpha")
    \o absorb_ops("absorb_bytes", 32, "quotient_commitments", proof.quotient_commitments)
    \o squeeze_op(0, "zeta")
    \o absorb_ops("absorb_u256", 32, "wire_evals", proof.wire_evals)
    \o absorb_ops("absorb_u256", 32, "permutation_evals", proof.permutation_evals)
    \o absorb_ops("absorb_u256", 32, "selector_evals", proof.selector_evals)
    \o squeeze_op(0, "v")
    \o absorb_ops("absorb_bytes", 32, "opening_proof_zeta", <<proof.opening_proof_zeta>>)
    \o absorb_ops("absorb_bytes", 32, "opening_proof_omega", <<proof.opening_proof_omega>>)
    \o squeeze_op(0, "u")

\* verify_plonk_host: the result, the number of pairing checks made, and the
\* operations made on the transcript
verify_plonk_host(proof, vk, public_inputs, srs_g2) ==
    LET transcript == host_transcript_ops(proof, vk, public_inputs)
        ch == host_transcript_challenges(proof, vk, public_inputs)
        pi_zeta == compute_pi_eval(public_inputs, ch.zeta, u256_to_fr(vk.omega), vk.n)
        zeta_fr == u256_to_fr(ch.zeta)
        batch_comms == proof.wire_commitments \o <<proof.permutation_commitment>> \o vk.selector_commitments
        batch_evals == proof.wire_evals \o <<proof.permutation_evals[1]>> \o proof.selector_evals
    IN  IF pi_zeta.err THEN [result |-> "Err(Division by zero in PI)", pairings |-> 0, transcript |-> transcript]
        ELSE IF gate_constraint(proof, pi_zeta.result) # 0 THEN [result |-> "Ok(false)", pairings |-> 0, transcript |-> transcript]
        ELSE IF parse_g1_panics(proof.wire_on_curve) THEN [result |-> "panic", pairings |-> 0, transcript |-> transcript]
        ELSE IF parse_g1_panics(vk.points_valid) THEN [result |-> "panic", pairings |-> 0, transcript |-> transcript]
        ELSE IF ~verify_kzg_batch(batch_comms, zeta_fr, batch_evals, proof.opening_proof_zeta, srs_g2, u256_to_fr(ch.v_challenge))
             THEN [result |-> "Ok(false)", pairings |-> 1, transcript |-> transcript]
        ELSE IF parse_g1_panics(proof.omega_on_curve) THEN [result |-> "panic", pairings |-> 1, transcript |-> transcript]
        ELSE IF verify_kzg_single(proof.permutation_commitment, fr_mul(zeta_fr, u256_to_fr(vk.omega)), u256_to_fr(proof.permutation_evals[2]), proof.opening_proof_omega, srs_g2)
             THEN [result |-> "Ok(true)", pairings |-> 2, transcript |-> transcript]
        ELSE [result |-> "Ok(false)", pairings |-> 2, transcript |-> transcript]

\* ------------------------------------------------------------ stark/merkle.rs
\* Digests are written as terms: the all-zero digest is <<>>, the digest of a
\* leaf value v is <<v>>, and the digest of a pair is the pair itself, so
\* that Keccak256 is collision-free on the values explored.
ZeroHash == <<>>

\* hash_pair: Keccak256(left || right)
hash_pair(left, right) == <<left, right>>

\* hash_leaf: Keccak256("leaf:" || data)
hash_leaf(data) == <<data>>

\* usize::next_power_of_two
next_power_of_two(n) == CHOOSE p \in { 2 ^ k : k \in 0 .. 16 } : p >= n /\ p < 2 * n

\* The levels of MerkleTree::new above `level`, leaves first, root last.
RECURSIVE merkle_levels(_)
merkle_levels(level) ==
    IF Len(level) <= 1 THEN level
    ELSE level \o merkle_levels([i \in 1 .. Len(level) \div 2 |-> hash_pair(level[2 * i - 1], level[2 * i])])

\* MerkleTree::new: the leaves padded with zero digests to a power of two,
\* then every level up to the root (nodes[k] of the code is nodes[k + 1] here).
MerkleTree_new(leaves) ==
    IF leaves = <<>> THEN [nodes |-> <<>>, num_leaves |-> 0]
    ELSE LET num_leaves == next_power_of_two(Len(leaves)) IN
         [nodes |-> merkle_levels([i \in 1 .. num_leaves |-> IF i <= Len(leaves) THEN leaves[i] ELSE ZeroHash]),
          num_leaves |-> num_leaves]

\* MerkleTree::root
MerkleTree_root(tree) == IF tree.nodes = <<>> THEN ZeroHash ELSE tree.nodes[Len(tree.nodes)]

\* The loop of MerkleTree::proof: the sibling at every level below the root.
RECURSIVE proof_siblings(_, _, _, _)
proof_siblings(tree, current_idx, level_start, level_size) ==
    IF level_size <= 1 THEN <<>>
    ELSE LET sibling_idx == IF current_idx % 2 = 0 THEN level_start + current_idx + 1
                            ELSE level_start + current_idx - 1
         IN  <<IF sibling_idx < level_start + level_size THEN tree.nodes[sibling_idx + 1] ELSE ZeroHash>>
             \o proof_siblings(tree, current_idx \div 2, level_start + level_size, level_size \div 2)

\* MerkleTree::proof: None, or Some(MerkleProof { leaf_index, siblings })
MerkleTree_proof(tree, leaf_index) ==
    IF leaf_index >= tree.num_leaves \/ tree.nodes = <<>>
    THEN [some |-> FALSE, leaf_index |-> leaf_index, siblings |-> <<>>]
    ELSE [some |-> TRUE, leaf_index |-> leaf_index, siblings |-> proof_siblings(tree, leaf_index, 0, tree.num_leaves)]

\* The loop of MerkleProof::verify: the digest reached from current_hash.
RECURSIVE merkle_path_hash(_, _, _)
merkle_path_hash(siblings, current_hash, current_idx) ==
    IF siblings = <<>> THEN current_hash
    ELSE merkle_path_hash(Tail(siblings),
                          IF current_idx % 2 = 0 THEN hash_pair(current_hash, Head(siblings))
                          ELSE hash_pair(Head(siblings), current_hash),
                          current_idx \div 2)

\* A faulty MerkleProof::verify that always hashes the current digest on the left.
MerkleProof_verify_left_only(proof, leaf_hash, root) ==
    merkle_path_hash(proof.siblings, leaf_hash, 0) = root

\* MerkleProof::verify
MerkleProof_verify(proof, leaf_hash, root) ==
    merkle_path_hash(proof.siblings, leaf_hash, proof.leaf_index) = root

\* --------------------------------------------- stark/mod.rs, stark/verifier.rs
\* SecurityLevel::Proven100.num_queries()
Proven100_num_queries == 28

\* StarkVerifier::compute_fibonacci (the inputs used here stay far below u64::MAX)
RECURSIVE compute_fibonacci(_, _)
compute_fibonacci(n, initial) ==
    IF n = 0 THEN initial[1]
    ELSE IF n = 1 THEN initial[2]
    ELSE compute_fibonacci(n - 1, <<initial[2], initial[1] + initial[2]>>)

\* deserialize_fibonacci_proof: "Ok" or its error
deserialize_fibonacci_proof(bytes) ==
    IF bytes.len < 44 THEN "Err(DeserializationError)"
    ELSE IF bytes.num_queries > 1000 THEN "Err(InvalidInputSize)"
    ELSE IF bytes.len < 36 + bytes.num_queries * 12 + 8 THEN "Err(DeserializationError)"
    ELSE "Ok"

\* The FibonacciProof deserialize_fibonacci_proof builds: one empty Merkle
\* path per query.
FibonacciProof_from_bytes(bytes) ==
    [trace_commitment |-> bytes.trace_commitment, query_values |-> bytes.query_values,
     merkle_proofs |-> [i \in DOMAIN bytes.query_values |-> <<>>], expected_result |-> bytes.expected_result]

\* StarkVerifier::validate_proof_structure
validate_proof_structure(proof) ==
    IF Len(proof.query_values) # Proven100_num_queries THEN "Err(InvalidProofStructure)"
    ELSE IF Len(proof.merkle_proofs) # Proven100_num_queries THEN "Err(InvalidProofStructure)"
    ELSE "Ok"

\* StarkVerifier::verify_merkle_proofs: a query without a Merkle path, or
\* with an empty one, is skipped; every other path is verified against the
\* trace commitment.
verify_merkle_proofs(proof) ==
    IF \E i \in DOMAIN proof.query_values :
          /\ i <= Len(proof.merkle_proofs) /\ proof.merkle_proofs[i] # <<>>
          /\ ~MerkleProof_verify([leaf_index |-> proof.query_values[i][1], siblings |-> proof.merkle_proofs[i]],
                                 hash_leaf(proof.query_values[i][2]), proof.trace_commitment)
    THEN "Err(MerkleProofFailed)" ELSE "Ok"

\* StarkVerifier::verify_constraints: the first offending query decides
RECURSIVE verify_constraints(_)
verify_constraints(query_values) ==
    IF query_values = <<>> THEN "Ok"
    ELSE LET pos == Head(query_values)[1]
             value == Head(query_values)[2]
         IN  IF pos >= 1024 * 1024 THEN "Err(InvalidQueryPosition)"
             ELSE IF value = 0 /\ pos > 1 THEN "Err(ConstraintFailed)"
             ELSE verify_constraints(Tail(query_values))

\* StarkVerifier::verify_result
verify_result(proof, trace_length, initial_values) ==
    IF proof.expected_result # compute_fibonacci(trace_length - 1, initial_values)
    THEN "Err(VerificationFailed)" ELSE "Ok"

\* StarkVerifier::verify: structure, constraints, Merkle paths, result.
StarkVerifier_verify(proof, trace_length, initial_values) ==
    IF validate_proof_structure(proof) # "Ok" THEN validate_proof_structure(proof)
    ELSE IF verify_constraints(proof.query_values) # "Ok" THEN verify_constraints(proof.query_values)
    ELSE IF verify_merkle_proofs(proof) # "Ok" THEN verify_merkle_proofs(proof)
    ELSE verify_result(proof, trace_length, initial_values)

\* stark::verify_proof
stark_verify_proof(proof_bytes, public_inputs) ==
    IF proof_bytes.len < 44 THEN "Err(DeserializationError)"
    ELSE IF proof_bytes.len > 1000000 THEN "Err(InvalidInputSize)"
    ELSE IF public_inputs.len < 24 THEN "Err(DeserializationError)"
    ELSE IF \/ public_inputs.trace_length < 8
            \/ public_inputs.trace_length > 1000000
            \/ ~is_power_of_two(public_inputs.trace_length)
         THEN "Err(InvalidInputSize)"
    ELSE IF deserialize_fibonacci_proof(proof_bytes) # "Ok" THEN deserialize_fibonacci_proof(proof_bytes)
    ELSE IF StarkVerifier_verify(FibonacciProof_from_bytes(proof_bytes), public_inputs.trace_length, <<public_inputs.initial_f0, public_inputs.initial_f1>>) = "Ok"
         THEN "Ok(true)"
    ELSE "Ok(false)"

\* ------------------------------------------------- calls of the verifiers
\* PLONK proofs: a gate that vanishes or not, every pair of opening proofs,
\* and point encodings that are not on the curve.
PlonkProofValue(a, qc, wz, ww, wire_on_curve, omega_on_curve) ==
    [wire_commitments |-> <<1, 2, 3>>, permutation_commitment |-> 4,
     quotient_commitments |-> <<0, 1, 2>>,
     wire_evals |-> <<a, 1, 0>>, permutation_evals |-> <<1, 1>>,
     selector_evals |-> <<1, 0, 0, 0, qc>>,
     opening_proof_zeta |-> wz, opening_proof_omega |-> ww,
     wire_on_curve |-> wire_on_curve, omega_on_curve |-> omega_on_curve]

PlonkProofs ==
    { PlonkProofValue(a, qc, wz, ww, TRUE, TRUE) : a \in {0, 1}, qc \in {0, FieldP - 1}, wz \in Fp, ww \in Fp }

PlonkHostProofs ==
    PlonkProofs \cup
    { PlonkProofValue(0, 0, wz, 0, w, o) : wz \in Fp, w \in BOOLEAN, o \in BOOLEAN }

PlonkVk(n, num_public_inputs, omega, points_valid) ==
    [n |-> n, num_public_inputs |-> num_public_inputs,
     selector_commitments |-> <<1, 0, 0, 0, 2>>, permutation_commitments |-> <<1, 2, 3>>,
     lagrange_first |-> 1, lagrange_last |-> 2, omega |-> omega, k1 |-> 2, k2 |-> 3,
     points_valid |-> points_valid]

\* Verification keys: domains of size 2 for 0 and 1 public inputs, a size that
\* is no power of two, an omega outside the domain, an invalid commitment.
PlonkVks ==
    { PlonkVk(2, 0, FieldP - 1, TRUE), PlonkVk(2, 1, FieldP - 1, TRUE),
      PlonkVk(3, 0, FieldP - 1, TRUE), PlonkVk(2, 0, 3, TRUE), PlonkVk(2, 0, FieldP - 1, FALSE) }

\* Public-input vectors: none, one whose challenge falls on the domain, one
\* whose challenge does not.
PlonkPublicInputs == { <<>>, <<1>>, <<3>> }

\* The SRS point [tau]_2.
PlonkSrs == {2, 3}

\* STARK proof byte strings around a proof of 28 queries.
StarkProof(len, num_queries, first, expected_result) ==
    [len |-> len, trace_commitment |-> hash_leaf(7), num_queries |-> num_queries,
     query_values |-> [i \in 1 .. num_queries |-> IF i = 1 THEN first ELSE <<5, 3>>],
     expected_result |-> expected_result]

StarkProofBytes ==
    { StarkProof(44 + 12 * nq, nq, first, r) :
        nq \in {Proven100_num_queries - 1, Proven100_num_queries},
        first \in {<<5, 3>>, <<5, 0>>, <<1024 * 1024, 3>>}, r \in {21, 22} }
    \cup { StarkProof(43, 0, <<5, 3>>, 21), StarkProof(1000001, 0, <<5, 3>>, 21),
           [len |-> 12100, trace_commitment |-> hash_leaf(7), num_queries |-> 1001, query_values |-> <<>>, expected_result |-> 21],
           [StarkProof(44 + 12 * Proven100_num_queries, Proven100_num_queries, <<5, 3>>, 21) EXCEPT !.len = 300] }

StarkPublicInputs ==
    { [len |-> l, trace_length |-> t, initial_f0 |-> 1, initial_f1 |-> 1] : l \in {16, 24}, t \in {4, 8, 12} }

PvIdle ==
    [op |-> "idle", proof_system |-> 0, proof |-> <<>>, public_inputs |-> <<>>, vk |-> <<>>,
     srs |-> 0, overflow_checks |-> FALSE, result |-> "", pairings |-> 0, transcript |-> <<>>,
     at |-> <<>>, again |-> FALSE]

\* A caller invokes plonk::verify_plonk_proof.
Call_verify_plonk_proof ==
    /\ pv.op = "idle"
    /\ \E proof \in PlonkProofs, vk \in PlonkVks, public_inputs \in PlonkPublicInputs, srs \in PlonkSrs :
         LET r == verify_plonk_proof(proof, vk, public_inputs, srs) IN
         pv' = [PvIdle EXCEPT !.op = "verify_plonk_proof", !.proof_system = PLONK, !.proof = proof,
                              !.public_inputs = public_inputs, !.vk = vk, !.srs = srs,
                              !.result = r.result, !.pairings = r.pairings, !.transcript = r.transcript]
    /\ UNCHANGED <<contract_vars, vcall, g16, fcall, proof_attestor>>

\* A caller invokes the host verifier verify_plonk_host.
Call_verify_plonk_host ==
    /\ pv.op = "idle"
    /\ \E proof \in PlonkHostProofs, vk \in PlonkVks, public_inputs \in PlonkPublicInputs, srs_g2 \in PlonkSrs :
         LET r == verify_plonk_host(proof, vk, public_inputs, srs_g2) IN
         pv' = [PvIdle EXCEPT !.op = "verify_plonk_host", !.proof_system = PLONK, !.proof = proof,
                              !.public_inputs = public_inputs, !.vk = vk, !.srs = srs_g2,
                              !.result = r.result, !.pairings = r.pairings, !.transcript = r.transcript]
    /\ UNCHANGED <<contract_vars, vcall, g16, fcall, proof_attestor>>

\* A caller invokes stark::verify_proof.
Call_stark_verify_proof ==
    /\ pv.op = "idle"
    /\ \E proof_bytes \in StarkProofBytes, public_inputs \in StarkPublicInputs :
         pv' = [PvIdle EXCEPT !.op = "stark_verify_proof", !.proof_system = STARK, !.proof = proof_bytes,
                              !.public_inputs = public_inputs,
                              !.result = stark_verify_proof(proof_bytes, public_inputs)]
    /\ UNCHANGED <<contract_vars, vcall, g16, fcall, proof_attestor>>

\* The trace of the Fibonacci computation of length 8 from (1, 1).
FibonacciTrace == <<1, 1, 2, 3, 5, 8, 13, 21>>

\* The Merkle tree over the trace values (MerkleTree::from_u64_values).
FibonacciTraceTree == MerkleTree_new([i \in DOMAIN FibonacciTrace |-> hash_leaf(FibonacciTrace[i])])

\* The Merkle path sent for a query at `pos`: none, the one of the tree, or
\* the one of the neighbouring position.
QueryPath(pos, mode) ==
    CASE mode = "none" -> <<>>
      [] mode = "valid" -> MerkleTree_proof(FibonacciTraceTree, pos).siblings
      [] mode = "wrong" -> MerkleTree_proof(FibonacciTraceTree, pos + 1).siblings

\* Proofs handed to StarkVerifier::verify: 28 queries of one trace position,
\* the first query and the others with a Merkle path of their own kind.
FibonacciProofs ==
    { [trace_commitment |-> MerkleTree_root(FibonacciTraceTree),
       query_values |-> [i \in 1 .. Proven100_num_queries |-> <<pos, FibonacciTrace[pos + 1]>>],
       merkle_proofs |-> [i \in 1 .. Proven100_num_queries |-> QueryPath(pos, IF i = 1 THEN m1 ELSE m2)],
       expected_result |-> r] :
        pos \in {2, 5}, m1 \in {"none", "valid", "wrong"}, m2 \in {"none", "valid"}, r \in {21, 22} }

\* A caller invokes StarkVerifier::new(Proven100).verify.
Call_StarkVerifier_verify ==
    /\ pv.op = "idle"
    /\ \E proof \in FibonacciProofs :
         pv' = [PvIdle EXCEPT !.op = "StarkVerifier_verify", !.proof_system = STARK, !.proof = proof,
                              !.public_inputs = [len |-> 24, trace_length |-> 8, initial_f0 |-> 1, initial_f1 |-> 1],
                              !.result = StarkVerifier_verify(proof, 8, <<1, 1>>)]
    /\ UNCHANGED <<contract_vars, vcall, g16, fcall, proof_attestor>>

\* A caller invokes the dispatcher verify_universal_proof.
Call_verify_universal_proof ==
    /\ pv.op = "idle"
    /\ \E proof_system \in ProofTypeArgs, proof \in G16ProofBytes, public_inputs \in G16InputBytes,
          vk \in G16VkBytes, overflow_checks \in BOOLEAN :
         LET r == verify_universal_proof(proof_system, proof, public_inputs, vk, overflow_checks) IN
         pv' = [PvIdle EXCEPT !.op = "verify_universal_proof", !.proof_system = proof_system,
                              !.proof = proof, !.public_inputs = public_inputs, !.vk = vk,
                              !.overflow_checks = overflow_checks, !.result = r,
                              !.pairings = IF proof_system = Groth16 THEN groth16_pairings(r, FALSE) ELSE 0]
    /\ UNCHANGED <<contract_vars, vcall, g16, fcall, proof_attestor>>

\* No call of the Merkle / FRI / transcript / wire-format code has been made.
FcallIdle == [op |-> "idle"]

\* ------------------------------------- plonk/transcript.rs, as byte streams
\* The Keccak hasher of a transcript is the stream of bytes it was fed:
\* update appends, whatever the boundaries of the calls. A byte b of the
\* stream is <<b>>; the 32 bytes of a digest are one element <<stream, n>>,
\* equal to another digest only when the hashed streams are equal (no
\* collisions).
ByteBase == 4

\* The bytes of a byte string.
Bytes(data) == [i \in 1 .. Len(data) |-> <<data[i] % ByteBase>>]

\* Little-endian bytes of v on `width` bytes.
to_le_bytes(v, width) == [i \in 1 .. width |-> <<(v \div (ByteBase ^ (i - 1))) % ByteBase>>]

\* The width of a serialized field element or compressed point (32 bytes in
\* the source, scaled down), and of a u64.
ElemWidth == 2
U64Width == 2

\* CanonicalSerialize::serialize_compressed of a field element or a point.
serialize_compressed(element) == to_le_bytes(element, ElemWidth)

\* serialize_compressed of each point of a list, concatenated.
RECURSIVE serialize_all(_)
serialize_all(points) ==
    IF points = <<>> THEN <<>> ELSE serialize_compressed(Head(points)) \o serialize_all(Tail(points))

\* Keccak256::finalize: the digest of the stream.
Keccak256_finalize(stream) == <<stream, Len(stream)>>

\* Fr::from_be_bytes_mod_order of a digest: distinct digests give distinct
\* challenges (the reduction of a uniform 256-bit value).
from_be_bytes_mod_order(hash_output) == <<hash_output, 0, 0>>

\* Transcript::new, on byte-string labels
Transcript_new_bytes(label) == [hasher |-> Bytes(label), domain_label |-> label]

\* Transcript::absorb_field: label, then the serialized element
Transcript_absorb_field(t, label, element) ==
    [t EXCEPT !.hasher = @ \o Bytes(label) \o serialize_compressed(element)]

\* Transcript::absorb_point: label, then the serialized point
Transcript_absorb_point(t, label, point) ==
    [t EXCEPT !.hasher = @ \o Bytes(label) \o serialize_compressed(point)]

\* Transcript::absorb_points: label, count, then each serialized point
Transcript_absorb_points(t, label, points) ==
    [t EXCEPT !.hasher = @ \o Bytes(label) \o to_le_bytes(Len(points), U64Width) \o serialize_all(points)]

\* Transcript::absorb_bytes: label, length, then the data
Transcript_absorb_bytes(t, label, data) ==
    [t EXCEPT !.hasher = @ \o Bytes(label) \o to_le_bytes(Len(data), U64Width) \o Bytes(data)]

\* Transcript::squeeze_challenge: the digest of a clone of the hasher fed
\* with the label; the digest, not the label, is fed back into the hasher.
Transcript_squeeze_challenge(t, label) ==
    LET hash_output == Keccak256_finalize(t.hasher \o Bytes(label))
    IN  [challenge |-> from_be_bytes_mod_order(hash_output),
         transcript |-> [t EXCEPT !.hasher = @ \o <<hash_output>>]]

\* One operation of a transcript by its name: the transcript after it and the
\* challenge it returned (<<>> for an absorb).
Transcript_apply(t, op) ==
    CASE op.kind = "absorb_field" -> [transcript |-> Transcript_absorb_field(t, op.label, op.value[1]), challenge |-> <<>>]
      [] op.kind = "absorb_point" -> [transcript |-> Transcript_absorb_point(t, op.label, op.value[1]), challenge |-> <<>>]
      [] op.kind = "absorb_points" -> [transcript |-> Transcript_absorb_points(t, op.label, op.value), challenge |-> <<>>]
      [] op.kind = "absorb_bytes" -> [transcript |-> Transcript_absorb_bytes(t, op.label, op.value), challenge |-> <<>>]
      [] op.kind = "squeeze_challenge" -> Transcript_squeeze_challenge(t, op.label)

\* A transcript driven through a list of operations: the final transcript and
\* the challenge of every operation.
RECURSIVE Transcript_run(_, _, _)
Transcript_run(t, ops, out) ==
    IF ops = <<>> THEN [transcript |-> t, out |-> out]
    ELSE LET r == Transcript_apply(t, Head(ops))
         IN  Transcript_run(r.transcript, Tail(ops), Append(out, r.challenge))

\* Most operations made on one transcript.
MaxOps == 3

\* Labels, one a prefix of another as PUBLIC_INPUT is of PUBLIC_INPUTS;
\* field elements and points; byte strings; lists of points.
TranscriptLabels == { <<1>>, <<1, 1>> }
TranscriptElements == { 5, 6 }
TranscriptData == { <<>>, <<1>> }
TranscriptPointLists == { <<>>, <<5>> }

\* The operations a caller chooses from.
TranscriptOps ==
    { [kind |-> k, label |-> l, value |-> <<e>>] : k \in {"absorb_field", "absorb_point"}, l \in TranscriptLabels, e \in TranscriptElements }
    \cup { [kind |-> "absorb_points", label |-> l, value |-> ps] : l \in TranscriptLabels, ps \in TranscriptPointLists }
    \cup { [kind |-> "absorb_bytes", label |-> l, value |-> d] : l \in TranscriptLabels, d \in TranscriptData }
    \cup { [kind |-> "squeeze_challenge", label |-> l, value |-> <<>>] : l \in TranscriptLabels }

\* The call record of a transcript after one more operation.
TranscriptAfter(op) ==
    LET r == Transcript_apply(fcall.transcript, op)
    IN  [fcall EXCEPT !.transcript = r.transcript, !.log = Append(@, op), !.out = Append(@, r.challenge)]

\* A caller creates a transcript.
Call_Transcript_new ==
    /\ fcall.op = "idle"
    /\ \E label \in TranscriptLabels :
         fcall' = [op |-> "transcript", transcript |-> Transcript_new_bytes(label), log |-> <<>>, out |-> <<>>]
    /\ UNCHANGED <<contract_vars, vcall, g16, pv, proof_attestor>>

\* A caller absorbs a field element.
Call_Transcript_absorb_field ==
    /\ fcall.op = "transcript" /\ Len(fcall.log) < MaxOps
    /\ \E label \in TranscriptLabels, element \in TranscriptElements :
         fcall' = TranscriptAfter([kind |-> "absorb_field", label |-> label, value |-> <<element>>])
    /\ UNCHANGED <<contract_vars, vcall, g16, pv, proof_attestor>>

\* A caller absorbs a point.
Call_Transcript_absorb_point ==
    /\ fcall.op = "transcript" /\ Len(fcall.log) < MaxOps
    /\ \E label \in TranscriptLabels, point \in TranscriptElements :
         fcall' = TranscriptAfter([kind |-> "absorb_point", label |-> label, value |-> <<point>>])
    /\ UNCHANGED <<contract_vars, vcall, g16, pv, proof_attestor>>

\* A caller absorbs a list of points.
Call_Transcript_absorb_points ==
    /\ fcall.op = "transcript" /\ Len(fcall.log) < MaxOps
    /\ \E label \in TranscriptLabels, points \in TranscriptPointLists :
         fcall' = TranscriptAfter([kind |-> "absorb_points", label |-> label, value |-> points])
    /\ UNCHANGED <<contract_vars, vcall, g16, pv, proof_attestor>>

\* A caller absorbs a byte string.
Call_Transcript_absorb_bytes ==
    /\ fcall.op = "transcript" /\ Len(fcall.log) < MaxOps
    /\ \E label \in TranscriptLabels, data \in TranscriptData :
         fcall' = TranscriptAfter([kind |-> "absorb_bytes", label |-> label, value |-> data])
    /\ UNCHANGED <<contract_vars, vcall, g16, pv, proof_attestor>>

\* A caller squeezes a challenge.
Call_Transcript_squeeze_challenge ==
    /\ fcall.op = "transcript" /\ Len(fcall.log) < MaxOps
    /\ \E label \in TranscriptLabels :
         fcall' = TranscriptAfter([kind |-> "squeeze_challenge", label |-> label, value |-> <<>>])
    /\ UNCHANGED <<contract_vars, vcall, g16, pv, proof_attestor>>

\* ------------------------------------------------------ calls of stark/merkle.rs
\* Most leaves of a tree built here.
MaxLeaves == 5

\* Leaf digests handed to MerkleTree::new: digests of values, and the zero digest.
MerkleLeaves == { hash_leaf(1), hash_leaf(2), ZeroHash }

\* A caller builds a tree over a leaf list, asks for the proof of one index
\* and, when there is one, verifies a leaf digest with it against the root.
Call_merkle_proof_verify ==
    /\ fcall.op = "idle"
    /\ \E n \in 1 .. MaxLeaves :
         \E leaves \in [1 .. n -> MerkleLeaves], leaf_index \in 0 .. n, leaf_hash \in MerkleLeaves :
           LET tree == MerkleTree_new(leaves)
               proof == MerkleTree_proof(tree, leaf_index)
           IN  fcall' = [op |-> "merkle", leaves |-> leaves, leaf_index |-> leaf_index, leaf_hash |-> leaf_hash,
                         root |-> MerkleTree_root(tree), proof |-> proof,
                         result |-> IF proof.some THEN MerkleProof_verify(proof, leaf_hash, MerkleTree_root(tree))
                                    ELSE FALSE]
    /\ UNCHANGED <<contract_vars, vcall, g16, pv, proof_attestor>>

\* ------------------------------------------------------- stark/src/fri.rs
\* Division in the field: multiplication by the inverse, the inverse of zero
\* being zero.
fr_div(a, b) == IF b % FieldP = 0 THEN 0 ELSE fr_mul(a, fr_inverse(b))

\* FriVerifier::validate_proof_structure
FriVerifier_validate_proof_structure(options, proof) ==
    IF Len(proof.layer_commitments) # options.num_layers THEN "Err(FriVerificationFailed)"
    ELSE IF proof.num_queries # options.num_queries THEN "Err(FriVerificationFailed)"
    ELSE IF Len(proof.remainder) > options.max_remainder_degree + 1 THEN "Err(FriVerificationFailed)"
    ELSE "Ok"

\* FriVerifier::verify_merkle_proof: the leaf digest of the value, hashed up
\* the path by the parity of the index
FriVerifier_verify_merkle_proof(root, proof, value) ==
    IF merkle_path_hash(proof.path, hash_leaf(value), proof.index) = root THEN "Ok"
    ELSE "Err(MerkleProofFailed)"

\* FriVerifier::verify_folding; layer_idx and query_idx count from 0. An
\* index outside a vector, or a remainder by zero, panics.
FriVerifier_verify_folding(proof, layer_idx, query_idx, challenge, evaluation_domain) ==
    LET current_eval == proof.layer_evaluations[layer_idx + 1][query_idx + 1]
        prev_layer_evals == proof.layer_evaluations[layer_idx]
        query_pos == proof.layer_proofs[layer_idx + 1][query_idx + 1].index
        domain_size == Len(evaluation_domain) \div (2 ^ layer_idx)
        x == evaluation_domain[(query_pos % domain_size) + 1]
        pos_x == query_pos * 2
        pos_neg_x == pos_x + 1
        f_x == prev_layer_evals[pos_x + 1]
        f_neg_x == prev_layer_evals[pos_neg_x + 1]
        two == fr_add(1, 1)
        even_part == fr_div(fr_add(f_x, f_neg_x), two)
        odd_part == fr_div(fr_sub(f_x, f_neg_x), fr_mul(two, x))
        expected_eval == fr_add(even_part, fr_mul(challenge, odd_part))
    IN  IF domain_size = 0 THEN "panic"
        ELSE IF pos_neg_x + 1 > Len(prev_layer_evals) THEN "panic"
        ELSE IF current_eval = expected_eval THEN "Ok"
        ELSE "Err(FriVerificationFailed)"

\* The loop of verify_layer from query query_idx on.
RECURSIVE FriVerifier_verify_queries(_, _, _, _, _, _)
FriVerifier_verify_queries(options, proof, layer_idx, query_idx, challenge, evaluation_domain) ==
    IF query_idx >= options.num_queries THEN "Ok"
    ELSE IF query_idx + 1 > Len(proof.layer_proofs[layer_idx + 1]) THEN "panic"
    ELSE IF query_idx + 1 > Len(proof.layer_evaluations[layer_idx + 1]) THEN "panic"
    ELSE LET merkle == FriVerifier_verify_merkle_proof(proof.layer_commitments[layer_idx + 1],
                           proof.layer_proofs[layer_idx + 1][query_idx + 1],
                           proof.layer_evaluations[layer_idx + 1][query_idx + 1])
             folding == IF layer_idx > 0
                        THEN FriVerifier_verify_folding(proof, layer_idx, query_idx, challenge, evaluation_domain)
                        ELSE "Ok"
         IN  IF merkle # "Ok" THEN merkle
             ELSE IF folding # "Ok" THEN folding
             ELSE FriVerifier_verify_queries(options, proof, layer_idx, query_idx + 1, challenge, evaluation_domain)

\* FriVerifier::verify_layer
FriVerifier_verify_layer(options, proof, layer_idx, challenge, evaluation_domain) ==
    IF layer_idx + 1 > Len(proof.layer_proofs) THEN "panic"
    ELSE IF layer_idx + 1 > Len(proof.layer_evaluations) THEN "panic"
    ELSE FriVerifier_verify_queries(options, proof, layer_idx, 0, challenge, evaluation_domain)

\* FriVerifier::evaluate_polynomial: Horner's method at the field element
\* of the index
RECURSIVE FriVerifier_evaluate_polynomial(_, _)
FriVerifier_evaluate_polynomial(coefficients, x_index) ==
    IF coefficients = <<>> THEN 0
    ELSE fr_add(fr_mul(FriVerifier_evaluate_polynomial(Tail(coefficients), x_index), x_index % FieldP),
                Head(coefficients))

\* FriVerifier::verify_remainder
FriVerifier_verify_remainder(options, proof) ==
    IF Len(proof.remainder) > options.max_remainder_degree + 1 THEN "Err(DegreeBoundViolation)"
    ELSE IF proof.layer_evaluations = <<>> THEN "Err(FriVerificationFailed)"
    ELSE LET last_layer_evals == proof.layer_evaluations[Len(proof.layer_evaluations)]
         IN  IF \E query_idx \in 0 .. Len(last_layer_evals) - 1 :
                   FriVerifier_evaluate_polynomial(proof.remainder, query_idx) # last_layer_evals[query_idx + 1]
             THEN "Err(EvaluationMismatch)" ELSE "Ok"

\* The loop of verify over the layers from layer_idx on.
RECURSIVE FriVerifier_verify_layers(_, _, _, _, _)
FriVerifier_verify_layers(options, proof, layer_idx, challenges, evaluation_domain) ==
    IF layer_idx >= options.num_layers THEN "Ok"
    ELSE LET r == FriVerifier_verify_layer(options, proof, layer_idx, challenges[layer_idx + 1], evaluation_domain)
         IN  IF r # "Ok" THEN r
             ELSE FriVerifier_verify_layers(options, proof, layer_idx + 1, challenges, evaluation_domain)

\* FriVerifier::verify
FriVerifier_verify(options, proof, challenges, initial_evaluation_domain) ==
    IF FriVerifier_validate_proof_structure(options, proof) # "Ok"
    THEN FriVerifier_validate_proof_structure(options, proof)
    ELSE IF Len(challenges) # options.num_layers THEN "Err(FriVerificationFailed)"
    ELSE IF FriVerifier_verify_layers(options, proof, 0, challenges, initial_evaluation_domain) # "Ok"
    THEN FriVerifier_verify_layers(options, proof, 0, challenges, initial_evaluation_domain)
    ELSE FriVerifier_verify_remainder(options, proof)

\* The options of the verifier: two layers, one query, a remainder of degree
\* at most 1.
FriOptionsUsed == [num_layers |-> 2, blowup_factor |-> 2, num_queries |-> 1, max_remainder_degree |-> 1]

\* A two-layer proof: the evaluations f(x), f(-x) of layer 0, the folded
\* evaluation of layer 1 opened at `index`, a remainder, and per layer a
\* commitment that is the digest of the opened evaluation or is not.
FriProofValue(f_x, f_neg_x, eval, index, remainder, committed) ==
    [layer_commitments |-> <<hash_leaf(f_x), IF committed THEN hash_leaf(eval) ELSE ZeroHash>>,
     layer_proofs |-> << <<[path |-> <<>>, index |-> 0]>>, <<[path |-> <<>>, index |-> index]>> >>,
     layer_evaluations |-> << <<f_x, f_neg_x>>, <<eval>> >>,
     remainder |-> remainder, num_queries |-> 1]

FriRemainders == { <<c>> : c \in Fp } \cup { <<0, 1>>, <<0, 0, 0>> }

\* A caller invokes FriVerifier::new(options).verify.
Call_FriVerifier_verify ==
    /\ fcall.op = "idle"
    /\ \E f_x \in Fp, f_neg_x \in Fp, eval \in Fp, index \in {0, 1}, remainder \in FriRemainders,
          committed \in BOOLEAN, challenges \in { <<1, 1>>, <<1, 2>>, <<1>> } :
         LET proof == FriProofValue(f_x, f_neg_x, eval, index, remainder, committed) IN
         fcall' = [op |-> "fri", options |-> FriOptionsUsed, proof |-> proof, challenges |-> challenges,
                   evaluation_domain |-> <<1, 4>>,
                   result |-> FriVerifier_verify(FriOptionsUsed, proof, challenges, <<1, 4>>)]
    /\ UNCHANGED <<contract_vars, vcall, g16, pv, proof_attestor>>

\* ------------------------------------------------- types.rs, wire formats
\* Byte strings are sequences of byte values. The fixed-width fields
\* (program_id, vk_hash, merkle_root, public_key, nullifier, value and the
\* u32 lengths) are scaled down to one byte each; U32Range stands for 2^32,
\* the number of values of a length field.
U32Range == 3

\* `len() as u32`: the length truncated to the width of the field
as_u32(n) == n % U32Range

\* u32::to_le_bytes and u32::from_le_bytes, on the one byte of the field
u32_to_le_bytes(v) == <<v>>
u32_from_le_bytes(bytes) == bytes[1]

\* bytes[from .. from + n), offsets counted from 0
slice(bytes, from, n) == SubSeq(bytes, from + 1, from + n)

\* UniversalProof::encode
UniversalProof_encode(x) ==
    <<x.version, x.proof_type>> \o u32_to_le_bytes(x.program_id) \o <<x.vk_hash>>
        \o u32_to_le_bytes(as_u32(Len(x.proof_bytes))) \o x.proof_bytes
        \o u32_to_le_bytes(as_u32(Len(x.public_inputs_bytes))) \o x.public_inputs_bytes

\* UniversalProof::decode reading the public inputs where the proof starts.
UniversalProof_decode_no_advance(bytes) ==
    IF Len(bytes) < 6 THEN [some |-> FALSE]
    ELSE IF bytes[1] # 1 THEN [some |-> FALSE]
    ELSE IF ~ProofType_from_u8_ok(bytes[2]) THEN [some |-> FALSE]
    ELSE LET proof_len == u32_from_le_bytes(slice(bytes, 4, 1))
             offset == 5
         IN  IF Len(bytes) < offset + proof_len THEN [some |-> FALSE]
             ELSE IF Len(bytes) < offset + 1 THEN [some |-> FALSE]
             ELSE LET public_inputs_len == u32_from_le_bytes(slice(bytes, offset, 1)) IN
                  IF Len(bytes) < offset + 1 + public_inputs_len THEN [some |-> FALSE]
                  ELSE [some |-> TRUE,
                        value |-> [version |-> bytes[1], proof_type |-> bytes[2],
                                   program_id |-> u32_from_le_bytes(slice(bytes, 2, 1)), vk_hash |-> bytes[4],
                                   proof_bytes |-> slice(bytes, 5, proof_len),
                                   public_inputs_bytes |-> slice(bytes, offset + 1, public_inputs_len)]]

\* UniversalProof::decode: None, or Some(value)
UniversalProof_decode(bytes) ==
    IF Len(bytes) < 6 THEN [some |-> FALSE]
    ELSE IF bytes[1] # 1 THEN [some |-> FALSE]
    ELSE IF ~ProofType_from_u8_ok(bytes[2]) THEN [some |-> FALSE]
    ELSE LET proof_len == u32_from_le_bytes(slice(bytes, 4, 1))
             offset == 5 + proof_len
         IN  IF Len(bytes) < 5 + proof_len THEN [some |-> FALSE]
             ELSE IF Len(bytes) < offset + 1 THEN [some |-> FALSE]
             ELSE LET public_inputs_len == u32_from_le_bytes(slice(bytes, offset, 1)) IN
                  IF Len(bytes) < offset + 1 + public_inputs_len THEN [some |-> FALSE]
                  ELSE [some |-> TRUE,
                        value |-> [version |-> bytes[1], proof_type |-> bytes[2],
                                   program_id |-> u32_from_le_bytes(slice(bytes, 2, 1)), vk_hash |-> bytes[4],
                                   proof_bytes |-> slice(bytes, 5, proof_len),
                                   public_inputs_bytes |-> slice(bytes, offset + 1, public_inputs_len)]]

\* PublicStatement::encode
PublicStatement_encode(s) ==
    <<s.merkle_root, s.public_key, s.nullifier, s.value>>
        \o u32_to_le_bytes(as_u32(Len(s.extra))) \o s.extra

\* PublicStatement::decode: None, or Some(value)
PublicStatement_decode(bytes) ==
    IF Len(bytes) < 5 THEN [some |-> FALSE]
    ELSE LET extra_len == u32_from_le_bytes(slice(bytes, 4, 1)) IN
         IF Len(bytes) < 5 + extra_len THEN [some |-> FALSE]
         ELSE [some |-> TRUE,
               value |-> [merkle_root |-> bytes[1], public_key |-> bytes[2], nullifier |-> bytes[3],
                          value |-> bytes[4], extra |-> slice(bytes, 5, extra_len)]]

\* Longest byte string of a proof, of public inputs, of extra data.
MaxBytesLen == 3

WireByteStrings == SeqsUpTo({0, 1}, MaxBytesLen)

\* A caller encodes a UniversalProof and decodes the bytes.
Call_UniversalProof_encode_decode ==
    /\ fcall.op = "idle"
    /\ \E version \in {1, 2}, proof_type \in {Groth16, PLONK, STARK}, program_id \in {0, U32Range - 1},
          vk_hash \in {0, 1}, proof_bytes \in WireByteStrings, public_inputs_bytes \in WireByteStrings :
         LET x == [version |-> version, proof_type |-> proof_type, program_id |-> program_id, vk_hash |-> vk_hash,
                   proof_bytes |-> proof_bytes, public_inputs_bytes |-> public_inputs_bytes]
         IN  fcall' = [op |-> "UniversalProof", x |-> x, encoded |-> UniversalProof_encode(x),
                       decoded |-> UniversalProof_decode(UniversalProof_encode(x))]
    /\ UNCHANGED <<contract_vars, vcall, g16, pv, proof_attestor>>

\* A caller encodes a PublicStatement and decodes the bytes.
Call_PublicStatement_encode_decode ==
    /\ fcall.op = "idle"
    /\ \E merkle_root \in {0, 1}, public_key \in {0, 1}, nullifier \in {0, 1}, value \in {0, 2},
          extra \in WireByteStrings :
         LET s == [merkle_root |-> merkle_root, public_key |-> public_key, nullifier |-> nullifier,
                   value |-> value, extra |-> extra]
         IN  fcall' = [op |-> "PublicStatement", x |-> s, encoded |-> PublicStatement_encode(s),
                       decoded |-> PublicStatement_decode(PublicStatement_encode(s))]
    /\ UNCHANGED <<contract_vars, vcall, g16, pv, proof_attestor>>

\* Longest buffer handed to decode: the six fixed bytes and two more.
MaxBufferLen == 8

\* Byte values of a buffer: enough for a good and a bad version, good and bad
\* proof types, and lengths 0, 1 and 3.
WireBuffers == SeqsUpTo({0, 1, 3}, MaxBufferLen)

\* A caller decodes a buffer received from anyone.
Call_UniversalProof_decode ==
    /\ fcall.op = "idle"
    /\ \E bytes \in WireBuffers :
         fcall' = [op |-> "UniversalProof_decode", bytes |-> bytes, decoded |-> UniversalProof_decode(bytes)]
    /\ UNCHANGED <<contract_vars, vcall, g16, pv, proof_attestor>>

\* ---------------------------------------------------------------- utils.rs
RECURSIVE fr_pow_loop(_, _, _)
\* The loop of utils::fr_pow: square and multiply, from the lowest bit of exp.
fr_pow_loop(result, base, exp) ==
    IF exp = 0 THEN result
    ELSE fr_pow_loop(IF exp % 2 = 1 THEN fr_mul(result, base) ELSE result,
                     fr_mul(base, base), exp \div 2)

\* utils::fr_pow
utils_fr_pow(base, exp) == fr_pow_loop(1, base % FieldP, exp)

\* U256::saturating_sub
saturating_sub(a, b) == IF a >= b THEN a - b ELSE 0

\* utils::fr_inv raising to the power p - 1.
utils_fr_inv_fermat_exponent(a) ==
    IF a = 0 THEN [tag |-> "None", value |-> 0]
    ELSE [tag |-> "Some", value |-> utils_fr_pow(a, saturating_sub(FieldP, 1))]

\* utils::fr_inv: an Option, None for zero
utils_fr_inv(a) ==
    IF a = 0 THEN [tag |-> "None", value |-> 0]
    ELSE [tag |-> "Some", value |-> utils_fr_pow(a, saturating_sub(FieldP, 2))]

\* Largest exponent handed to fr_pow.
MaxExp == 12

\* U256 arguments: the field elements and as many values beyond the modulus.
FieldArgs == 0 .. (2 * FieldP - 1)

\* A caller invokes utils::fr_pow.
Call_utils_fr_pow ==
    /\ fcall.op = "idle"
    /\ \E base \in FieldArgs, exp \in 0 .. MaxExp :
         fcall' = [op |-> "fr_pow", base |-> base, exp |-> exp, result |-> utils_fr_pow(base, exp)]
    /\ UNCHANGED <<contract_vars, vcall, g16, pv, proof_attestor>>

\* A caller invokes utils::fr_inv.
Call_utils_fr_inv ==
    /\ fcall.op = "idle"
    /\ \E a \in FieldArgs :
         fcall' = [op |-> "fr_inv", a |-> a, result |-> utils_fr_inv(a)]
    /\ UNCHANGED <<contract_vars, vcall, g16, pv, proof_attestor>>

\* ------------------------------------------------------ attestor/src/lib.rs
\* sol_storage of a freshly deployed ProofAttestor: every slot zero. `last`
\* is the last call: operation, caller, argument and outcome.
AttestorInit ==
    [owner |-> ZeroAddress, attestor |-> ZeroAddress, attested_proofs |-> {}, attestation_count |-> 0,
     initialized |-> FALSE,
     last |-> [op |-> "idle", sender |-> ZeroAddress, arg |-> 0, result |-> ""]]

\* Proof hashes submitted for attestation.
ProofHashes == {1, 2}

\* The record of a call of the attestor.
AttestorCall(op, sender, arg, result) == [op |-> op, sender |-> sender, arg |-> arg, result |-> result]

\* initialize(attestor_address)
ProofAttestor_initialize ==
    /\ \E sender \in Addresses, attestor_address \in Addresses \cup {ZeroAddress} :
         IF proof_attestor.initialized
         THEN proof_attestor' =
                 [proof_attestor EXCEPT
                    !.last = AttestorCall("initialize", sender, attestor_address, "Err(Already initialized)")]
         ELSE proof_attestor' =
                 [proof_attestor EXCEPT
                    !.owner = sender, !.attestor = attestor_address, !.initialized = TRUE,
                    !.last = AttestorCall("initialize", sender, attestor_address, "Ok")]
    /\ UNCHANGED <<contract_vars, vcall, g16, pv, fcall>>

\* attest_proof without the look-up of the proof hash.
attest_proof_without_lookup ==
    /\ \E sender \in Addresses, proof_hash \in ProofHashes :
         IF sender # proof_attestor.attestor
         THEN proof_attestor' =
                 [proof_attestor EXCEPT
                    !.last = AttestorCall("attest_proof", sender, proof_hash, "Err(Only attestor can attest)")]
         ELSE proof_attestor' =
                 [proof_attestor EXCEPT
                    !.attested_proofs = @ \cup {proof_hash},
                    !.attestation_count = @ + 1,
                    !.last = AttestorCall("attest_proof", sender, proof_hash, "Ok")]
    /\ UNCHANGED <<contract_vars, vcall, g16, pv, fcall>>

\* attest_proof(proof_hash)
ProofAttestor_attest_proof ==
    /\ \E sender \in Addresses, proof_hash \in ProofHashes :
         IF sender # proof_attestor.attestor
         THEN proof_attestor' =
                 [proof_attestor EXCEPT
                    !.last = AttestorCall("attest_proof", sender, proof_hash, "Err(Only attestor can attest)")]
         ELSE IF proof_hash \in proof_attestor.attested_proofs
         THEN proof_attestor' =
                 [proof_attestor EXCEPT
                    !.last = AttestorCall("attest_proof", sender, proof_hash, "Err(Proof already attested)")]
         ELSE proof_attestor' =
                 [proof_attestor EXCEPT
                    !.attested_proofs = @ \cup {proof_hash},
                    !.attestation_count = @ + 1,
                    !.last = AttestorCall("attest_proof", sender, proof_hash, "Ok")]
    /\ UNCHANGED <<contract_vars, vcall, g16, pv, fcall>>

\* is_attested(proof_hash)
ProofAttestor_is_attested(proof_hash) == proof_hash \in proof_attestor.attested_proofs

\* set_attestor(new_attestor): owner only.
ProofAttestor_set_attestor ==
    /\ \E sender \in Addresses, new_attestor \in Addresses \cup {ZeroAddress} :
         IF sender # proof_attestor.owner
         THEN proof_attestor' =
                 [proof_attestor EXCEPT
                    !.last = AttestorCall("set_attestor", sender, new_attestor, "Err(Only owner can set attestor)")]
         ELSE proof_attestor' =
                 [proof_attestor EXCEPT
                    !.attestor = new_attestor,
                    !.last = AttestorCall("set_attestor", sender, new_attestor, "Ok")]
    /\ UNCHANGED <<contract_vars, vcall, g16, pv, fcall>>

\* transfer_ownership(new_owner): owner only.
ProofAttestor_transfer_ownership ==
    /\ \E sender \in Addresses, new_owner \in Addresses \cup {ZeroAddress} :
         IF sender # proof_attestor.owner
         THEN proof_attestor' =
                 [proof_attestor EXCEPT
                    !.last = AttestorCall("transfer_ownership", sender, new_owner, "Err(Only owner can transfer ownership)")]
         ELSE proof_attestor' =
                 [proof_attestor EXCEPT
                    !.owner = new_owner,
                    !.last = AttestorCall("transfer_ownership", sender, new_owner, "Ok")]
    /\ UNCHANGED <<contract_vars, vcall, g16, pv, fcall>>

\* ------------------------------- the verification engine beside the registry
\* The registry state a verification could read: pause flag, nullifiers,
\* counter, registered keys.
RegistrySnapshot == <<paused, nullifiers, verification_count, verification_keys>>

\* What identifies a call of the engine: the function, its byte-string
\* arguments, and the build it runs in.
EngineKey(c) == <<c.op, c.proof_system, c.proof, c.public_inputs, c.vk, c.overflow_checks>>

\* The record of an engine call made now: `at` is the registry state it ran
\* in, `again` tells that the previous call had the same arguments and ran
\* in another registry state.
EngineCall(op, proof_system, proof, public_inputs, vk, overflow_checks, result) ==
    LET c == [PvIdle EXCEPT !.op = op, !.proof_system = proof_system, !.proof = proof,
                            !.public_inputs = public_inputs, !.vk = vk,
                            !.overflow_checks = overflow_checks, !.result = result, !.at = RegistrySnapshot]
    IN  [c EXCEPT !.again = EngineKey(pv) = EngineKey(c) /\ pv.at # RegistrySnapshot]

\* Arguments of the engine calls: a proof the key accepts or not.
EngineProofBytes == { G16Proof(128, "ok", a) : a \in 0 .. 1 }
EngineInputBytes == G16Inputs(<<1>>, 0)
EngineVkBytes == G16Vk(400, "ok", <<1, 2>>)
EngineStarkProofBytes == { StarkProof(44 + 12 * Proven100_num_queries, Proven100_num_queries, <<5, 3>>, r) : r \in {21, 22} }
EngineStarkPublicInputs == [len |-> 24, trace_length |-> 8, initial_f0 |-> 1, initial_f1 |-> 1]

\* Any caller invokes verify_universal_proof, at any time.
Engine_verify_universal_proof ==
    /\ \E proof_system \in {Groth16, STARK}, proof \in EngineProofBytes :
         pv' = EngineCall("verify_universal_proof", proof_system, proof, EngineInputBytes, EngineVkBytes, FALSE,
                          verify_universal_proof(proof_system, proof, EngineInputBytes, EngineVkBytes, FALSE))
    /\ UNCHANGED <<contract_vars, vcall, g16, fcall, proof_attestor>>

\* Any caller invokes groth16::verify, at any time.
Engine_groth16_verify ==
    /\ \E proof \in EngineProofBytes, overflow_checks \in BOOLEAN :
         pv' = EngineCall("groth16_verify", Groth16, proof, EngineInputBytes, EngineVkBytes, overflow_checks,
                          groth16_verify(proof, EngineInputBytes, EngineVkBytes, overflow_checks))
    /\ UNCHANGED <<contract_vars, vcall, g16, fcall, proof_attestor>>

\* Any caller invokes stark::verify_proof, at any time.
Engine_stark_verify_proof ==
    /\ \E proof_bytes \in EngineStarkProofBytes :
         pv' = EngineCall("stark_verify_proof", STARK, proof_bytes, EngineStarkPublicInputs, <<>>, FALSE,
                          stark_verify_proof(proof_bytes, EngineStarkPublicInputs))
    /\ UNCHANGED <<contract_vars, vcall, g16, fcall, proof_attestor>>

\* --------------------------------------------------------- specifications
\* The deployed contract, called by anyone, in any order.
Init ==
    /\ ContractInit
    /\ vcall = VcallIdle
    /\ g16 = G16Idle
    /\ pv = PvIdle /\ fcall = FcallIdle /\ proof_attestor = AttestorInit

Next ==
    \/ lib_verify_groth16
    \/ lib_register_vk_universal
    \/ lib_register_vk
    \/ lib_register_vk_typed
    \/ lib_verify_universal
    \/ lib_verify
    \/ lib_batch_verify
    \/ lib_unpause
    \/ lib_mark_nullifier_used
    \/ v06_verify_groth16
    \/ v06_register_vk
    \/ v06_pause
    \/ v06_unpause
    \/ v06_transfer_admin
    \/ v06_mark_nullifier_used
    \/ v010_verify_groth16
    \/ v010_register_vk
    \/ v010_verify
    \/ v010_batch_verify
    \/ v010_mark_nullifier_used
    \/ storage_register_vk
    \/ storage_set_paused
    \/ storage_mark_nullifier_used
    \/ storage_increment_verifications

Spec == Init /\ [][Next]_vars

\* The contract is not deployed; only the pure modules are called.
IdleContract ==
    /\ rev = "lib"
    /\ paused = FALSE
    /\ admin = ZeroAddress
    /\ nullifiers = {}
    /\ verification_count = 0
    /\ vk_registry = [k \in RegistryKeys |-> EmptyBytes]
    /\ precomputed_data = [k \in RegistryKeys |-> NoPrecomputed]
    /\ verification_keys = [h \in Hashes |-> EmptyBytes]
    /\ precomputed_pairings = [h \in Hashes |-> NoPrecomputed]
    /\ registrations = {}
    /\ last = LastIdle

\* Calls of the dispatch validator.
InitValidator == IdleContract /\ vcall = VcallIdle /\ g16 = G16Idle /\ pv = PvIdle /\ fcall = FcallIdle /\ proof_attestor = AttestorInit

NextValidator == Call_validate_proof_type_binding \/ Call_validate_all

SpecValidator == InitValidator /\ [][NextValidator]_vars

\* Calls of the Groth16 module.
InitGroth16 == IdleContract /\ vcall = VcallIdle /\ g16 = G16Idle /\ pv = PvIdle /\ fcall = FcallIdle /\ proof_attestor = AttestorInit

NextGroth16 ==
    \/ Call_groth16_verify
    \/ Call_groth16_verify_with_precomputed
    \/ Call_groth16_batch_verify

SpecGroth16 == InitGroth16 /\ [][NextGroth16]_vars

\* Calls of the PLONK and STARK verifiers and of the dispatcher.
InitVerifiers == IdleContract /\ vcall = VcallIdle /\ g16 = G16Idle /\ pv = PvIdle /\ fcall = FcallIdle /\ proof_attestor = AttestorInit

NextVerifiers ==
    \/ Call_verify_plonk_proof
    \/ Call_verify_plonk_host
    \/ Call_stark_verify_proof
    \/ Call_StarkVerifier_verify
    \/ Call_verify_universal_proof

SpecVerifiers == InitVerifiers /\ [][NextVerifiers]_vars

\* ------------------------------------------------------------ properties
\* The proof types under which vk_hash has been registered, by any entry point.
RegisteredTypes(vk_hash) == { k[1] : k \in { x \in registrations : x[3] = vk_hash } }

\* C1: a well-formed PLONK proof (type 1) submitted against a vk_hash that is
\* registered only for Groth16 fails with ProofTypeMismatch, and the call
\* performs no pairing.
C1_PlonkAgainstGroth16Key ==
    (/\ last.op \in {"verify_universal", "verify"}
     /\ last.proof_type = PLONK
     /\ RegisteredTypes(last.vk_hash) = {Groth16})
    => (last.result = "Err(ProofTypeMismatch)" /\ last.pairings = 0)

\* C2: a verification request carrying (t, c, h) resolves a key only if
\* exactly (t, c, h) was registered before (entry points without a circuit
\* id carry program id 0, as their events do).
C2_ExactTripleBinding ==
    last.resolved => <<last.proof_type, last.program_id, last.vk_hash>> \in registrations

\* C3: validate_proof_type_binding passes if and only if the registered key is
\* active and its proof_type, vk_hash and circuit_id equal the descriptor's
\* proof_system_id, vk_commitment and circuit_id.
C3_BindingIff ==
    vcall.op = "validate_proof_type_binding" =>
        ((vcall.result = "Ok") <=>
            (/\ vcall.registered_vk.active
             /\ vcall.registered_vk.proof_type = vcall.descriptor.proof_system_id
             /\ vcall.registered_vk.vk_hash = vcall.descriptor.vk_commitment
             /\ vcall.registered_vk.circuit_id = vcall.descriptor.circuit_id))

\* An active key of the descriptor's proof type and circuit, whose hash alone
\* differs from the descriptor's commitment, has been refused.
C3_Witness ==
    /\ vcall.op = "validate_proof_type_binding"
    /\ vcall.registered_vk.active
    /\ vcall.registered_vk.proof_type = vcall.descriptor.proof_system_id
    /\ vcall.registered_vk.circuit_id = vcall.descriptor.circuit_id
    /\ vcall.registered_vk.vk_hash # vcall.descriptor.vk_commitment
    /\ vcall.result = "VKCommitmentMismatch"

\* The six checks of validate_all in their order, each evaluated on its own.
ChecksInOrder(c) ==
    << validate_proof_type_binding(c.self, c.descriptor, c.registered_vk),
       validate_curve_match(c.self, c.descriptor, c.registered_vk),
       validate_recursion_depth(c.self, c.descriptor),
       validate_input_count(c.self, c.descriptor, c.registered_vk),
       validate_proof_size(c.self, c.descriptor),
       validate_security_level(c.self, c.security_model) >>

\* The errors each check can return, in the same order.
CheckErrors ==
    << {"UnsupportedProofSystem", "ProofTypeMismatch", "VKCommitmentMismatch", "UnknownCircuitId"},
       {"CurveMismatch"}, {"ExcessiveRecursionDepth"}, {"TooManyPublicInputs"},
       {"UnsupportedProofSystem", "ProofTooLarge"},
       {"InsufficientSecurityLevel", "PostQuantumRequired"} >>

\* C4: validate_all returns the error of the earliest failing check in the
\* order binding, curve, recursion depth, input count, proof size, security
\* level; it evaluates no later check, and no check does curve arithmetic.
C4_FirstFailureWins ==
    vcall.op = "validate_all" =>
        LET checks == ChecksInOrder(vcall)
            failing == { i \in 1 .. 6 : checks[i] # "Ok" }
        IN  /\ vcall.curve_ops = 0
            /\ IF failing = {}
               THEN vcall.result = "Ok" /\ vcall.evaluated = 6
               ELSE LET first == CHOOSE i \in failing : \A j \in failing : i <= j IN
                    /\ vcall.result = checks[first]
                    /\ vcall.result \in CheckErrors[first]
                    /\ vcall.evaluated = first

\* A descriptor that violates both the input-count and the proof-size check
\* (and nothing earlier) has been refused with the input-count error.
C4_Witness ==
    /\ vcall.op = "validate_all"
    /\ ChecksInOrder(vcall)[4] # "Ok"
    /\ ChecksInOrder(vcall)[5] # "Ok"
    /\ vcall.result = "TooManyPublicInputs"
    /\ vcall.evaluated = 4

\* C5: no step of any revision removes a nullifier from the used set.
C5_NullifiersNeverDeleted ==
    [][\A n \in Nullifiers : n \in nullifiers => n \in nullifiers']_vars

\* A nullifier is still used after a later registration and a later
\* verification call.
C5_Witness ==
    /\ 1 \in nullifiers
    /\ registrations # {}
    /\ last.op = "verify_universal"
    /\ last.resolved

\* What a mark_nullifier_used call on a used nullifier returns in each revision.
AlreadyUsedReport ==
    CASE rev = "lib" -> "Ok(false)"
      [] rev = "v010" -> "Ok(false)"
      [] rev = "v06" -> "Err(InvalidInputSize)"
      [] rev = "storage" -> "panic"

\* C6: a mark_nullifier_used(n) call succeeds only on an unused n, which it
\* marks; on a used n it returns the revision's already-used report and
\* changes no contract state.
C6_MarkOnce ==
    [][last'.op = "mark_nullifier_used" =>
          LET n == last'.nullifier IN
          IF n \in nullifiers
          THEN /\ last'.result = AlreadyUsedReport
               /\ UNCHANGED <<rev, paused, admin, nullifiers, verification_count, vk_registry, precomputed_data, verification_keys, precomputed_pairings, registrations>>
          ELSE /\ last'.result \in {"Ok(true)", "Ok"}
               /\ nullifiers' = nullifiers \cup {n}]_vars

\* A second mark of the same nullifier has been refused.
C6_Witness ==
    /\ last.op = "mark_nullifier_used"
    /\ last.nullifier \in nullifiers
    /\ last.result = AlreadyUsedReport

\* The outcome of single verification of entry i of the last batch.
SingleOutcome(i) == groth16_verify(g16.proofs[i], g16.inputs[i], g16.vk, g16.overflow_checks)

\* C7: every entry of a Groth16 batch result agrees with single verification
\* of the same proof, inputs and key: true exactly when verify returns
\* Ok(true), and a batch that fails as a whole fails as verify does.
C7_BatchMatchesSingle ==
    (g16.op = "batch_verify" /\ Len(g16.proofs) = Len(g16.inputs)) =>
        \A i \in DOMAIN g16.proofs :
            IF g16.outcome = "Ok"
            THEN g16.results[i] = (SingleOutcome(i) = "Ok(true)")
            ELSE SingleOutcome(i) = g16.outcome

\* The structural checks of Groth16 verification, stated on the inputs.
G16Structural(proof, inputs, vk) ==
    \/ proof.len > MAX_PROOF_SIZE \/ vk.len > MAX_VK_SIZE
    \/ proof.enc # "ok" \/ vk.enc # "ok"
    \/ inputs.len % 32 # 0 \/ inputs.len \div 32 > MAX_PUBLIC_INPUTS
    \/ \E i \in DOMAIN inputs.elems : inputs.elems[i] >= FieldP
    \/ Len(inputs.elems) # Len(vk.gamma_abc_g1) - 1

G16TypedErrors ==
    {"Err(DeserializationError)", "Err(MalformedProof)", "Err(InvalidVerificationKey)",
     "Err(InvalidPublicInputs)", "Err(VerificationFailed)", "Err(InvalidInputSize)"}

\* C8: Groth16 verify never panics: a structural failure is a typed error, and
\* a structurally well-formed proof is answered Ok(true) or Ok(false).
C8_VerifyNeverPanics ==
    g16.op = "verify" =>
        IF G16Structural(g16.proofs[1], g16.inputs[1], g16.vk)
        THEN g16.outcome \in G16TypedErrors
        ELSE g16.outcome \in {"Ok(true)", "Ok(false)"}

\* The errors the PLONK and STARK verifiers and the dispatcher return.
VerifierErrors ==
    {"Err(InvalidPublicInput)", "Err(InvalidCircuitSize)", "Err(InvalidG1Point)", "Err(InvalidDomain)",
     "Err(InvalidProof)", "Err(InvalidInputSize)", "Err(Division by zero in PI)",
     "Err(DeserializationError)", "Err(Invalid proof system)", "Err(Groth16 verification failed)",
     "Err(Plonk verification failed)", "Err(Proof type not supported)"}

\* PI(zeta) as the called PLONK path computes it.
PlonkPi(c) ==
    IF c.op = "verify_plonk_proof"
    THEN compute_public_input_eval(c.public_inputs, plonk_transcript_zeta(c.proof, c.vk, c.public_inputs).challenge, c.vk.omega, c.vk.n)
    ELSE compute_pi_eval(c.public_inputs, host_transcript_challenges(c.proof, c.vk, c.public_inputs).zeta, u256_to_fr(c.vk.omega), c.vk.n)

\* Structural failures of a PLONK call, stated on its inputs.
PlonkStructural(c) ==
    \/ Len(c.public_inputs) # c.vk.num_public_inputs
    \/ ~is_power_of_two(c.vk.n) \/ ~c.vk.points_valid \/ fr_pow(c.vk.omega, c.vk.n) # 1
    \/ ~c.proof.wire_on_curve \/ ~c.proof.omega_on_curve
    \/ PlonkPi(c).err

\* Structural failures of a STARK call, stated on its inputs.
StarkStructural(c) ==
    \/ c.proof.len < 44 \/ c.proof.len > 1000000 \/ c.public_inputs.len < 24
    \/ c.public_inputs.trace_length < 8 \/ ~is_power_of_two(c.public_inputs.trace_length)
    \/ c.proof.num_queries > 1000 \/ c.proof.len < 44 + 12 * c.proof.num_queries
    \/ c.proof.num_queries # Proven100_num_queries
    \/ \E i \in DOMAIN c.proof.query_values : c.proof.query_values[i][1] >= 1024 * 1024

\* C9: on the PLONK paths, the STARK verifier and the dispatcher, a structural
\* failure is returned as an error before any pairing is computed, and every
\* structurally sound proof is answered Ok(true) or Ok(false): a false proof
\* is never an error or a panic.
C9_FailureClassification ==
    /\ pv.op \in {"verify_plonk_proof", "verify_plonk_host"} =>
          IF PlonkStructural(pv) THEN pv.result \in VerifierErrors /\ pv.pairings = 0
          ELSE pv.result \in {"Ok(true)", "Ok(false)"}
    /\ pv.op = "stark_verify_proof" =>
          IF StarkStructural(pv) THEN pv.result \in VerifierErrors
          ELSE pv.result \in {"Ok(true)", "Ok(false)"}
    /\ pv.op = "verify_universal_proof" =>
          /\ pv.result # "panic"
          /\ ~ProofType_from_u8_ok(pv.proof_system) => pv.result \in VerifierErrors
          /\ pv.proof_system = Groth16 =>
                IF G16Structural(pv.proof, pv.public_inputs, pv.vk)
                THEN pv.result \in VerifierErrors /\ pv.pairings = 0
                ELSE pv.result \in {"Ok(true)", "Ok(false)"}

\* C10: a PLONK proof whose gate value q_L a + q_R b + q_O c + q_M a b + q_C +
\* PI(zeta) is nonzero is never answered Ok(true), and is answered Ok(false)
\* when the call has no structural failure, on both PLONK paths.
C10_NonzeroGateRejected ==
    (/\ pv.op \in {"verify_plonk_proof", "verify_plonk_host"}
     /\ ~PlonkPi(pv).err
     /\ gate_constraint(pv.proof, PlonkPi(pv).result) # 0)
    => /\ pv.result # "Ok(true)"
       /\ ~PlonkStructural(pv) => pv.result = "Ok(false)"

\* The KZG opening relation for a commitment C, a point z, a value y and an
\* opening proof W under the SRS secret x: C - y = W * (x - z).
KzgOpens(commitment, z, y, proof, x) == fr_sub(commitment, y) = fr_mul(proof, fr_sub(x, z))

\* zeta as the called PLONK path derives it.
PlonkZeta(c) ==
    IF c.op = "verify_plonk_proof" THEN plonk_transcript_zeta(c.proof, c.vk, c.public_inputs).challenge
    ELSE u256_to_fr(host_transcript_challenges(c.proof, c.vk, c.public_inputs).zeta)

\* The batched opening at zeta of the wire, selector and permutation
\* commitments, aggregated in the order and with the challenge of the called path.
ZetaOpeningHolds(c) ==
    LET r == IF c.op = "verify_plonk_proof" THEN 2 % FieldP
             ELSE u256_to_fr(host_transcript_challenges(c.proof, c.vk, c.public_inputs).v_challenge)
        comms == IF c.op = "verify_plonk_proof"
                 THEN c.proof.wire_commitments \o c.vk.selector_commitments \o <<c.proof.permutation_commitment>>
                 ELSE c.proof.wire_commitments \o <<c.proof.permutation_commitment>> \o c.vk.selector_commitments
        evals == IF c.op = "verify_plonk_proof"
                 THEN c.proof.wire_evals \o c.proof.selector_evals \o <<c.proof.permutation_evals[1]>>
                 ELSE c.proof.wire_evals \o <<c.proof.permutation_evals[1]>> \o c.proof.selector_evals
    IN KzgOpens(kzg_aggregate(comms, 1, r), PlonkZeta(c), kzg_aggregate(evals, 1, r), c.proof.opening_proof_zeta, c.srs)

\* The single opening at zeta * omega of the permutation commitment.
OmegaOpeningHolds(c) ==
    KzgOpens(c.proof.permutation_commitment, fr_mul(PlonkZeta(c), c.vk.omega), c.proof.permutation_evals[2],
             c.proof.opening_proof_omega, c.srs)

\* C11: a PLONK verification that answers Ok(true) has made both pairing
\* checks, and both the batched opening at zeta and the single opening at
\* zeta * omega hold; the byte-level PLONK entry of the dispatcher accepts nothing.
C11_BothOpeningsRequired ==
    /\ (pv.op \in {"verify_plonk_proof", "verify_plonk_host"} /\ pv.result = "Ok(true)")
          => pv.pairings = 2 /\ ZetaOpeningHolds(pv) /\ OmegaOpeningHolds(pv)
    /\ (pv.op = "verify_universal_proof" /\ pv.proof_system = PLONK) => pv.result # "Ok(true)"

\* verify_plonk_proof accepted a proof, and both of its openings hold.
C11_Witness ==
    /\ pv.op = "verify_plonk_proof" /\ pv.result = "Ok(true)" /\ pv.pairings = 2
    /\ ZetaOpeningHolds(pv) /\ OmegaOpeningHolds(pv)

\* Calls of the Merkle tree code.
InitMerkle == IdleContract /\ vcall = VcallIdle /\ g16 = G16Idle /\ pv = PvIdle /\ fcall = FcallIdle /\ proof_attestor = AttestorInit

NextMerkle == Call_merkle_proof_verify

SpecMerkle == InitMerkle /\ [][NextMerkle]_vars

\* C18: for a tree built over a non-empty leaf list and an index inside the
\* list, the proof exists, it verifies the leaf at that index against the
\* root, and it verifies no other leaf digest.
C18_MerkleInclusion ==
    (fcall.op = "merkle" /\ fcall.leaf_index < Len(fcall.leaves))
    => /\ fcall.proof.some
       /\ fcall.result <=> (fcall.leaf_hash = fcall.leaves[fcall.leaf_index + 1])

\* The last leaf of a five-leaf list (padded to eight) verified under its proof of three siblings.
C18_Witness ==
    /\ fcall.op = "merkle" /\ Len(fcall.leaves) = 5 /\ fcall.leaf_index = 4
    /\ Len(fcall.proof.siblings) = 3 /\ fcall.result
    /\ fcall.leaf_hash = fcall.leaves[5]

\* The FibonacciProof a STARK call verified.
StarkProofOf(c) == IF c.op = "stark_verify_proof" THEN FibonacciProof_from_bytes(c.proof) ELSE c.proof

\* Every queried trace value is authenticated by a Merkle path against the
\* trace commitment.
StarkMerkleAuthenticated(proof) ==
    \A i \in DOMAIN proof.query_values :
        /\ i <= Len(proof.merkle_proofs) /\ proof.merkle_proofs[i] # <<>>
        /\ MerkleProof_verify([leaf_index |-> proof.query_values[i][1], siblings |-> proof.merkle_proofs[i]],
                              hash_leaf(proof.query_values[i][2]), proof.trace_commitment)

\* C12: a STARK proof is reported valid only if every queried trace value
\* is authenticated by a Merkle path, the proof carries an FRI proof of low
\* degree, and the boundary value of the last row is the one computed from
\* the public inputs.
C12_StarkThreeChecks ==
    (\/ pv.op = "stark_verify_proof" /\ pv.result = "Ok(true)"
     \/ pv.op = "StarkVerifier_verify" /\ pv.result = "Ok")
    => /\ StarkMerkleAuthenticated(StarkProofOf(pv))
       /\ "fri_proof" \in DOMAIN StarkProofOf(pv)
       /\ StarkProofOf(pv).expected_result
             = compute_fibonacci(pv.public_inputs.trace_length - 1, <<pv.public_inputs.initial_f0, pv.public_inputs.initial_f1>>)

\* The steps of the PLONK transcript in their fixed order: the message, the
\* operation, and how many times it is made.
PlonkTranscriptSteps(num_public_inputs) ==
    << <<"vk", "absorb", 1>>, <<"public_inputs", "absorb", num_public_inputs>>,
       <<"wire_commitments", "absorb", 3>>, <<"beta", "squeeze", 1>>, <<"gamma", "squeeze", 1>>,
       <<"permutation_commitment", "absorb", 1>>, <<"alpha", "squeeze", 1>>,
       <<"quotient_commitments", "absorb", 3>>, <<"zeta", "squeeze", 1>>,
       <<"wire_evals", "absorb", 3>>, <<"permutation_evals", "absorb", 2>>,
       <<"selector_evals", "absorb", 5>>, <<"v", "squeeze", 1>>,
       <<"opening_proof_zeta", "absorb", 1>>, <<"opening_proof_omega", "absorb", 1>>,
       <<"u", "squeeze", 1>> >>

\* The operations a list of steps stands for.
RECURSIVE StepsAsOps(_)
StepsAsOps(steps) ==
    IF steps = <<>> THEN <<>>
    ELSE [i \in 1 .. Head(steps)[3] |-> <<Head(steps)[2], Head(steps)[1], i>>] \o StepsAsOps(Tail(steps))

\* What a logged operation did: absorb or squeeze, on which message.
OpShape(op) == <<IF op.kind = "squeeze_challenge" THEN "squeeze" ELSE "absorb", op.msg, op.index>>

\* The PLONK verifier calls that ran their transcript.
PlonkTranscriptRan == pv.op \in {"verify_plonk_proof", "verify_plonk_host"} /\ pv.transcript # <<>>

\* C13: a PLONK verification that runs its transcript makes exactly the
\* operations of the fixed sequence, once each and in that order: key and
\* public inputs, 3 wire commitments, beta and gamma, the permutation
\* commitment, alpha, 3 quotient commitments, zeta, all evaluations, v, the 2
\* opening proofs, u; and every absorbed value is the proof's own.
C13_TranscriptSequence ==
    PlonkTranscriptRan =>
        /\ [i \in DOMAIN pv.transcript |-> OpShape(pv.transcript[i])] = StepsAsOps(PlonkTranscriptSteps(Len(pv.public_inputs)))
        /\ \A i \in DOMAIN pv.transcript :
             LET op == pv.transcript[i] IN
             /\ op.msg \in {"wire_commitments", "quotient_commitments", "wire_evals", "permutation_evals", "selector_evals"}
                   => op.value = pv.proof[op.msg][op.index]
             /\ op.msg \in {"permutation_commitment", "opening_proof_zeta", "opening_proof_omega"}
                   => op.value = pv.proof[op.msg]
             /\ op.msg = "public_inputs" => op.value = pv.public_inputs[op.index]

\* C13 witness: verify_plonk_proof accepted a proof after the 26 operations
\* of its transcript.
C13_Witness ==
    /\ pv.op = "verify_plonk_proof" /\ pv.result = "Ok(true)"
    /\ Len(pv.transcript) = 26 /\ pv.transcript[12].msg = "zeta"

\* C17: a PLONK verification handed a key whose circuit size is not a power
\* of two returns InvalidCircuitSize, whatever the proof and the public
\* inputs are, and has made no operation on a transcript.
C17_InvalidSizeBeforeTranscript ==
    (/\ pv.op \in {"verify_plonk_proof", "verify_plonk_host"}
     /\ ~(\E k \in 0 .. 16 : pv.vk.n = 2 ^ k))
    => pv.result = "Err(InvalidCircuitSize)" /\ pv.transcript = <<>>

InitTranscript == IdleContract /\ vcall = VcallIdle /\ g16 = G16Idle /\ pv = PvIdle /\ fcall = FcallIdle /\ proof_attestor = AttestorInit

NextTranscript ==
    \/ Call_Transcript_new
    \/ Call_Transcript_absorb_field
    \/ Call_Transcript_absorb_point
    \/ Call_Transcript_absorb_points
    \/ Call_Transcript_absorb_bytes
    \/ Call_Transcript_squeeze_challenge

SpecTranscript == InitTranscript /\ [][NextTranscript]_vars

\* The challenges of a list of operations run on a fresh transcript.
ChallengesOf(domain_label, ops) == Transcript_run(Transcript_new_bytes(domain_label), ops, <<>>).out

\* The squeezes of `ops` at or after position `from`, each compared with
\* the squeeze `shift` positions later in `variant`: all challenges differ.
LaterChallengesDiffer(domain_label, ops, variant_label, variant, from, shift) ==
    \A k \in from .. Len(ops) :
        ops[k].kind = "squeeze_challenge"
        => ChallengesOf(domain_label, ops)[k] # ChallengesOf(variant_label, variant)[k + shift]

\* `ops` with the operations at i and j exchanged.
Swapped(ops, i, j) == [k \in DOMAIN ops |-> IF k = i THEN ops[j] ELSE IF k = j THEN ops[i] ELSE ops[k]]

\* `ops` with `op` inserted before position k.
Inserted(ops, k, op) == SubSeq(ops, 1, k - 1) \o <<op>> \o SubSeq(ops, k, Len(ops))

IsAbsorb(op) == op.kind # "squeeze_challenge"

\* Identical sequences yield identical challenges at every squeeze.
TranscriptDeterministic ==
    fcall.op = "transcript" => ChallengesOf(fcall.transcript.domain_label, fcall.log) = fcall.out

\* Exchanging two different absorbed messages changes every challenge
\* squeezed after them.
TranscriptOrderSensitive ==
    fcall.op = "transcript" =>
        \A i \in DOMAIN fcall.log, j \in DOMAIN fcall.log :
            (i < j /\ IsAbsorb(fcall.log[i]) /\ IsAbsorb(fcall.log[j]) /\ fcall.log[i] # fcall.log[j])
            => LaterChallengesDiffer(fcall.transcript.domain_label, fcall.log,
                                     fcall.transcript.domain_label, Swapped(fcall.log, i, j), j, 0)

\* Absorbing a message again changes every challenge squeezed afterwards.
TranscriptReplaySensitive ==
    fcall.op = "transcript" =>
        \A i \in DOMAIN fcall.log, k \in DOMAIN fcall.log :
            (i < k /\ IsAbsorb(fcall.log[i]))
            => LaterChallengesDiffer(fcall.transcript.domain_label, fcall.log,
                                     fcall.transcript.domain_label, Inserted(fcall.log, k, fcall.log[i]), k, 1)

\* Two squeezes with no absorption in between yield different challenges.
TranscriptSqueezeExtends ==
    fcall.op = "transcript" =>
        \A i \in DOMAIN fcall.log :
            (i < Len(fcall.log) /\ ~IsAbsorb(fcall.log[i]) /\ ~IsAbsorb(fcall.log[i + 1]))
            => fcall.out[i] # fcall.out[i + 1]

\* C14: the challenges are a deterministic, order-sensitive function of the
\* absorbed messages: the same operations give the same challenges;
\* exchanging two absorbed messages, or absorbing one again, changes every
\* later challenge; consecutive squeezes give different challenges.
C14_TranscriptOrderSensitive ==
    /\ TranscriptDeterministic
    /\ TranscriptOrderSensitive
    /\ TranscriptReplaySensitive
    /\ TranscriptSqueezeExtends

\* `ops` with the label of operation i replaced.
Relabelled(ops, i, label) == [ops EXCEPT ![i].label = label]

\* Another label on an absorb or a squeeze changes the challenge of that
\* squeeze and of every later one.
TranscriptLabelSeparates ==
    fcall.op = "transcript" =>
        \A i \in DOMAIN fcall.log :
            \A label \in TranscriptLabels \ {fcall.log[i].label} :
            LaterChallengesDiffer(fcall.transcript.domain_label, fcall.log,
                                  fcall.transcript.domain_label, Relabelled(fcall.log, i, label), i, 0)

\* Another domain label changes every challenge.
TranscriptDomainSeparates ==
    fcall.op = "transcript" =>
        \A label \in TranscriptLabels \ {fcall.transcript.domain_label} :
            LaterChallengesDiffer(fcall.transcript.domain_label, fcall.log, label, fcall.log, 1, 0)

\* The (label, value) pairs of a list of operations.
LabelledValues(ops) == [k \in DOMAIN ops |-> <<ops[k].label, ops[k].value>>]

\* No list of as many operations with other labels or values, under the
\* same or another domain label, feeds the hasher the same byte stream.
TranscriptFramingUnambiguous ==
    fcall.op = "transcript" =>
        \A label \in TranscriptLabels, ops \in [DOMAIN fcall.log -> TranscriptOps] :
            (label # fcall.transcript.domain_label \/ LabelledValues(ops) # LabelledValues(fcall.log))
            => Transcript_run(Transcript_new_bytes(label), ops, <<>>).transcript.hasher # fcall.transcript.hasher

\* C15: labels separate domains: another label on an absorb, on a squeeze
\* or as the domain label changes this challenge and every later one, and
\* two different sequences of labelled operations never feed the same byte
\* stream to the hash.
C15_DomainSeparation ==
    /\ TranscriptLabelSeparates
    /\ TranscriptDomainSeparates
    /\ TranscriptFramingUnambiguous

\* The engine called beside a registry that registers keys, marks
\* nullifiers, pauses and counts.
InitEngine == Init /\ rev = "storage"

NextEngine ==
    \/ storage_register_vk
    \/ storage_set_paused
    \/ storage_mark_nullifier_used
    \/ storage_increment_verifications
    \/ Engine_verify_universal_proof
    \/ Engine_groth16_verify
    \/ Engine_stark_verify_proof

SpecEngine == InitEngine /\ [][NextEngine]_vars

InitFri == IdleContract /\ vcall = VcallIdle /\ g16 = G16Idle /\ pv = PvIdle /\ fcall = FcallIdle /\ proof_attestor = AttestorInit

NextFri == Call_FriVerifier_verify

SpecFri == InitFri /\ [][NextFri]_vars

\* The folding equation f'(x^2) = (f(x) + f(-x))/2 + alpha (f(x) - f(-x))/(2x)
\* for every query of every layer after the first, where the proof holds the
\* evaluations it names.
FriFoldingHolds(c) ==
    \A i \in 2 .. Len(c.proof.layer_evaluations) :
        \A q \in 1 .. c.options.num_queries :
            LET pos == c.proof.layer_proofs[i][q].index
                x == c.evaluation_domain[(pos % (Len(c.evaluation_domain) \div 2 ^ (i - 1))) + 1]
                prev == c.proof.layer_evaluations[i - 1]
            IN  /\ i <= Len(c.challenges) /\ 2 * pos + 2 <= Len(prev)
                /\ fr_mul(fr_mul(2, x), c.proof.layer_evaluations[i][q])
                     = fr_add(fr_mul(x, fr_add(prev[2 * pos + 1], prev[2 * pos + 2])),
                              fr_mul(c.challenges[i], fr_sub(prev[2 * pos + 1], prev[2 * pos + 2])))

\* The remainder polynomial takes, at every index, the value the last layer
\* holds there.
FriRemainderMatches(c) ==
    LET last_layer == c.proof.layer_evaluations[Len(c.proof.layer_evaluations)]
    IN  \A k \in 1 .. Len(last_layer) :
            LET x == (k - 1) % FieldP
            IN  last_layer[k] = (IF Len(c.proof.remainder) >= 1 THEN c.proof.remainder[1] ELSE 0)
                                + (IF Len(c.proof.remainder) >= 2 THEN c.proof.remainder[2] * x ELSE 0)
                                + (IF Len(c.proof.remainder) >= 3 THEN c.proof.remainder[3] * x * x ELSE 0)

\* FRI verification returns Ok only if both checks hold.
FriOkOnlyIfChecked ==
    (fcall.op = "fri" /\ fcall.result = "Ok") => FriFoldingHolds(fcall) /\ FriRemainderMatches(fcall)

\* The proof reaches the folding and remainder checks: its structure is
\* valid, every opened evaluation is authenticated by its Merkle path, and
\* every queried position lies inside the previous layer.
FriChecksReached(c) ==
    /\ FriVerifier_validate_proof_structure(c.options, c.proof) = "Ok"
    /\ Len(c.challenges) = c.options.num_layers
    /\ \A i \in DOMAIN c.proof.layer_evaluations :
        \A q \in 1 .. c.options.num_queries :
            /\ FriVerifier_verify_merkle_proof(c.proof.layer_commitments[i], c.proof.layer_proofs[i][q],
                                               c.proof.layer_evaluations[i][q]) = "Ok"
            /\ i > 1 => 2 * c.proof.layer_proofs[i][q].index + 2 <= Len(c.proof.layer_evaluations[i - 1])

\* C19: FRI verification returns Ok only if the folding equation holds for
\* every query of every layer after the first and the remainder matches the
\* last layer; a mismatch found by either check makes it fail with
\* FriVerificationFailed.
C19_FriMismatchError ==
    /\ FriOkOnlyIfChecked
    /\ (/\ fcall.op = "fri" /\ FriChecksReached(fcall)
        /\ ~(FriFoldingHolds(fcall) /\ FriRemainderMatches(fcall)))
       => fcall.result = "Err(FriVerificationFailed)"

InitWire == IdleContract /\ vcall = VcallIdle /\ g16 = G16Idle /\ pv = PvIdle /\ fcall = FcallIdle /\ proof_attestor = AttestorInit

NextWire ==
    \/ Call_UniversalProof_encode_decode
    \/ Call_PublicStatement_encode_decode
    \/ Call_UniversalProof_decode

SpecWire == InitWire /\ [][NextWire]_vars

\* The round trip succeeded: the bytes decode to the value encoded.
RoundTrips(c) == c.decoded.some /\ c.decoded.value = c.x

\* C20 as stated: every UniversalProof of version 1, whatever its byte
\* strings, and every PublicStatement, whatever its extra data, decodes from
\* its encoding to itself.
C20_RoundTripAnyLength ==
    /\ (fcall.op = "UniversalProof" /\ fcall.x.version = 1) => RoundTrips(fcall)
    /\ fcall.op = "PublicStatement" => RoundTrips(fcall)

\* C20: a UniversalProof of version 1 whose proof and public-input byte
\* strings are shorter than 2^32 bytes, and a PublicStatement whose extra
\* data is shorter than 2^32 bytes, decode from their encodings to
\* themselves.
C20_RoundTrip ==
    /\ (/\ fcall.op = "UniversalProof" /\ fcall.x.version = 1
        /\ Len(fcall.x.proof_bytes) < U32Range /\ Len(fcall.x.public_inputs_bytes) < U32Range)
       => RoundTrips(fcall)
    /\ (fcall.op = "PublicStatement" /\ Len(fcall.x.extra) < U32Range) => RoundTrips(fcall)

\* C20 witness: a UniversalProof with a non-empty proof and non-empty public
\* inputs, different from each other, came back from its encoding.
C20_Witness ==
    /\ fcall.op = "UniversalProof" /\ RoundTrips(fcall)
    /\ fcall.x.proof_bytes = <<1, 0>> /\ fcall.x.public_inputs_bytes = <<0, 1>>
    /\ fcall.x.proof_type = STARK /\ fcall.x.program_id = U32Range - 1

\* The buffer is an envelope and nothing else: the fixed fields, a supported
\* version and proof type, and exactly as many bytes as its two length fields
\* announce.
WellFormedEnvelope(bytes) ==
    /\ Len(bytes) >= 6
    /\ bytes[1] = 1
    /\ bytes[2] \in {Groth16, PLONK, STARK}
    /\ Len(bytes) >= 6 + bytes[5]
    /\ Len(bytes) = 6 + bytes[5] + bytes[6 + bytes[5]]

\* C21: UniversalProof::decode accepts a buffer only if it is a well-formed
\* envelope of exactly (fixed part) + proof_len + public_inputs_len bytes, and
\* the encoding of every proof of version 1 has exactly that length.
C21_DecodeExactEnvelope ==
    /\ (fcall.op = "UniversalProof_decode" /\ fcall.decoded.some) => WellFormedEnvelope(fcall.bytes)
    /\ (fcall.op = "UniversalProof" /\ fcall.x.version = 1)
       => Len(fcall.encoded) = 6 + Len(fcall.x.proof_bytes) + Len(fcall.x.public_inputs_bytes)

\* Some byte string of the call is over its static ceiling.
OverCeiling(c) ==
    \/ c.vk.len > MAX_VK_SIZE
    \/ \E i \in DOMAIN c.proofs : c.proofs[i].len > MAX_PROOF_SIZE
    \/ \E i \in DOMAIN c.inputs : c.inputs[i].len > 32 * MAX_PUBLIC_INPUTS

\* C22: a Groth16 call (single, with precomputed pairing, or batch) handed a
\* proof, key or public-input byte string over its static ceiling is rejected
\* with a typed error before any curve point is deserialized.
C22_CeilingsBeforeCurveWork ==
    (g16.op # "idle" /\ OverCeiling(g16))
    => /\ g16.outcome \in G16TypedErrors
       /\ g16.deserialized = {}

\* C23: verify_with_precomputed, called with the pairing that
\* compute_precomputed_pairing produced for the same key, returns the outcome
\* of verify on the same proof, public inputs and key.
C23_PrecomputedAgrees ==
    (/\ g16.op = "verify_with_precomputed"
     /\ compute_precomputed_pairing(g16.vk).err = ""
     /\ g16.pre = compute_precomputed_pairing(g16.vk).bytes)
    => g16.outcome = groth16_verify(g16.proofs[1], g16.inputs[1], g16.vk, g16.overflow_checks)

\* C23 witness: a proof with two public inputs, not all zero, was accepted
\* against the precomputed pairing.
C23_Witness ==
    /\ g16.op = "verify_with_precomputed"
    /\ g16.pre = compute_precomputed_pairing(g16.vk).bytes
    /\ g16.outcome = "Ok(true)"
    /\ Len(g16.inputs[1].elems) = 2 /\ g16.inputs[1].elems[1] # 0

\* C24: the dispatcher routes every proof of type Groth16, PLONK or STARK to
\* its verifier, so a supported type is never turned away for its type, and
\* exactly the type ids outside {0, 1, 2} are rejected as invalid.
C24_ThreeFamiliesDispatched ==
    pv.op = "verify_universal_proof"
    => /\ (pv.proof_system \notin {Groth16, PLONK, STARK}) <=> (pv.result = "Err(Invalid proof system)")
       /\ pv.proof_system \in {Groth16, PLONK, STARK} => pv.result # "Err(Proof type not supported)"

\* Calls of the scalar-field utilities.
InitField == IdleContract /\ vcall = VcallIdle /\ g16 = G16Idle /\ pv = PvIdle /\ fcall = FcallIdle /\ proof_attestor = AttestorInit

NextField == Call_utils_fr_pow \/ Call_utils_fr_inv

SpecField == InitField /\ [][NextField]_vars

\* The inverse of a nonzero element below the modulus is a^(p-2), and a times
\* it is 1.
FrInvInverts ==
    (fcall.op = "fr_inv" /\ fcall.a # 0 /\ fcall.a < FieldP)
    => /\ fcall.result.tag = "Some"
       /\ fcall.result.value = (fcall.a ^ (FieldP - 2)) % FieldP
       /\ fr_mul(fcall.a, fcall.result.value) = 1

\* C25 as stated: the inverse of zero fails with the error InvalidInputSize,
\* and the inverse of a nonzero a below the modulus is a^(p-2), with
\* a * inverse(a) = 1 modulo the prime.
C25_FieldInverseTypedError ==
    /\ (fcall.op = "fr_inv" /\ fcall.a = 0) => fcall.result.tag = "Err(InvalidInputSize)"
    /\ FrInvInverts

\* C25: the inverse of zero is None (no value, and no error code), and the
\* inverse of a nonzero a below the modulus is Some(a^(p-2)), with
\* a * inverse(a) = 1 modulo the prime.
C25_FieldInverse ==
    /\ (fcall.op = "fr_inv" /\ fcall.a = 0) => fcall.result.tag = "None"
    /\ FrInvInverts

\* C25 witness: the inverse of 3 was computed, and it is 2.
C25_Witness ==
    /\ fcall.op = "fr_inv" /\ fcall.a = 3
    /\ fcall.result.tag = "Some" /\ fcall.result.value = 2

\* The entry points the pause flag gates.
PausableOps == {"verify_groth16", "verify_universal", "verify", "batch_verify", "mark_nullifier_used"}

\* C26: while the contract is paused, every call of verify_groth16,
\* verify_universal, verify, batch_verify and mark_nullifier_used fails with
\* ContractPaused and leaves the verification counter, the nullifier set and
\* the key registry unchanged.
C26_PausedRejects ==
    [][(paused /\ last'.op \in PausableOps)
       => /\ last'.result = "Err(ContractPaused)"
          /\ UNCHANGED <<verification_count, nullifiers, vk_registry, precomputed_data,
                         verification_keys, precomputed_pairings>>]_vars

\* The number of proofs the call just made reported valid; the storage
\* library's increment_verifications is the counting step itself.
ReportedValid(l) ==
    IF l.op \in {"verify_groth16", "verify_universal", "verify"}
    THEN (IF l.result = "Ok(true)" THEN 1 ELSE 0)
    ELSE IF l.op = "batch_verify" THEN valid_count(l.results)
    ELSE IF l.op = "increment_verifications" THEN 1
    ELSE 0

RegisteredBytes(k) == IF ~is_empty(vk_registry[k]) THEN vk_registry[k] ELSE verification_keys[k[3]]

\* C28: a registered verification key is never altered or removed:
\* is_vk_registered is true for it after its registration and ever after, the
\* bytes stored for it do not change, and registering it again succeeds and
\* leaves the storage as it was.
C28_RegisteredKeysPermanent ==
    [][/\ \A k \in registrations' : is_vk_registered(k[3])'
       /\ \A k \in registrations : k \in registrations' /\ RegisteredBytes(k)' = RegisteredBytes(k)
       /\ (/\ last'.op \in {"register_vk", "register_vk_typed", "register_vk_universal"}
           /\ <<last'.proof_type, last'.program_id, last'.vk_hash>> \in registrations)
          => /\ last'.result = "Ok"
             /\ UNCHANGED <<vk_registry, precomputed_data, verification_keys, precomputed_pairings>>]_vars

\* C29: only the admin changes the pause flag. A pause, unpause or
\* transfer_admin call by anyone but the current admin fails with Unauthorized
\* and changes neither the flag nor the admin; the flag changes in no other
\* way than by the admin's pause or unpause; and a paused contract has an
\* admin who can call unpause.
C29_OnlyAdminPauses ==
    [][/\ (last'.op \in {"pause", "unpause", "transfer_admin"} /\ last'.sender # admin)
          => (last'.result = "Err(Unauthorized)" /\ UNCHANGED <<paused, admin>>)
       /\ paused' # paused
          => (last'.op \in {"pause", "unpause"} /\ last'.sender = admin /\ last'.result = "Ok")
       /\ admin' # admin
          => (last'.op = "transfer_admin" /\ last'.sender = admin /\ last'.result = "Ok")
       /\ paused' => admin' \in Addresses]_vars

\* The ProofAttestor contract, called by anyone, in any order.
InitAttestor == IdleContract /\ vcall = VcallIdle /\ g16 = G16Idle /\ pv = PvIdle /\ fcall = FcallIdle /\ proof_attestor = AttestorInit

NextAttestor ==
    \/ ProofAttestor_initialize
    \/ ProofAttestor_attest_proof
    \/ ProofAttestor_set_attestor
    \/ ProofAttestor_transfer_ownership

SpecAttestor == InitAttestor /\ [][NextAttestor]_vars

\* C30: in the ProofAttestor contract initialize succeeds only on a contract
\* not yet initialized, which it leaves initialized for good; attest_proof
\* succeeds only for the current attestor and for a proof hash not attested
\* before; an attested hash stays attested; and attestation_count is the number
\* of hashes for which is_attested is true.
C30_AttestorInvariants ==
    [][/\ (proof_attestor'.last.op = "initialize" /\ proof_attestor'.last.result = "Ok")
          => ~proof_attestor.initialized
       /\ proof_attestor.initialized => proof_attestor'.initialized
       /\ (proof_attestor'.last.op = "attest_proof" /\ proof_attestor'.last.result = "Ok")
          => /\ proof_attestor'.last.sender = proof_attestor.attestor
             /\ ~ProofAttestor_is_attested(proof_attestor'.last.arg)
             /\ proof_attestor'.last.arg \in proof_attestor'.attested_proofs
       /\ \A h \in ProofHashes : ProofAttestor_is_attested(h) => ProofAttestor_is_attested(h)'
       /\ proof_attestor'.attestation_count
             = Cardinality({ h \in ProofHashes : ProofAttestor_is_attested(h)' })]_vars

\* C30 witness: both proof hashes are attested, the second by an attestor the
\* owner appointed after the first attestation, and a repeated attestation
\* has just been refused.
C30_Witness ==
    /\ proof_attestor.attested_proofs = ProofHashes
    /\ proof_attestor.attestation_count = 2
    /\ proof_attestor.last.op = "attest_proof"
    /\ proof_attestor.last.result = "Err(Proof already attested)"
    /\ proof_attestor.attestor # proof_attestor.owner

====
